---- MODULE Spec2Model ----
(***************************************************************************)
(* State-machine model of the rating & qualification engine of the         *)
(* College-Football-Coefficient repository: bid allocation and             *)
(* rebalancing, qualifier selection, pot assignment, the seeded draw and   *)
(* the Round-of-24 pairing, the season ratings, the conference totals      *)
(* and the rolling aggregation.                                            *)
(***************************************************************************)
EXTENDS Integers, Sequences, FiniteSets, TLC

\* ------------------------------------------------------------------------
\* Bounds of the model (not program constants)
\* ------------------------------------------------------------------------
MaxConfs == 11
MaxFreeLen == 2
MaxFreeTarget == 5
TeamsPerConf == 5
MaxIndep == 2

\* ------------------------------------------------------------------------
\* Program constants
\* ------------------------------------------------------------------------
TargetTotal == 24
BidCap == 4
IndCap == 2

IND == "FBS Independents"
MAC == "Mid-American"

VARIABLES
    \* --- select_playoff_qualifiers.py / report_bids_snapshot.py ---
    pcB,                \* position of the run
    impl,               \* which file's rebalance_to_total is running
    rulesetB,           \* --ruleset / --mode
    rows,               \* conference_coefficient_rolling_5yr rows, in ORDER BY order
    ranked,             \* the list of dicts built by get_conference_bid_map
    total,              \* rebalance_to_total's local `total`
    target_total,       \* rebalance_to_total's parameter
    passes,             \* loop passes of rebalance_to_total that changed a bid
    standings,          \* conference_standings_by_year, per conference of `ranked`
    inserted,           \* main's counter
    missing_standings,  \* main's counter
    playoff_qualifiers_by_year,  \* committed rows of the key
    \* --- select_playoff_qualifiers_year_2.py ---
    pcY,                \* position of select_year2_field
    dbY,                \* the tables select_year2_field reads
    tiersY,             \* `tiers`: the tiered conferences in tier order
    ci,                 \* index of the conference loop
    selected,           \* `selected`: the SelectedTeam values in insertion order
    \* --- draw_playoff_year1.py / draw_playoff_year_2.py /
    \*     build_round_of_24_year2.py ---
    pcD,                \* position of the running program
    store,              \* the stored input tables the programs only read
    dbD,                \* committed output tables of the (season, formula, ruleset) key
    tx,                 \* the tables as the open connection sees them
    args,               \* the command line of the running program
    qualifiers,         \* `qualifiers`: the rows in the order they were read
    conf_ranks,         \* `conf_ranks`: conference -> CoE rank
    pot0, pot1, pot2,   \* the three pot lists
    rng,                \* state of random.Random(seed)
    conf_of,            \* `conf_of`: team -> conference, from playoff_field_by_year
    pairs,              \* result of backtrack_pairings
    runs,               \* what each finished run left behind
    \* --- build_coefficients.py / compute_conference_coe_v0.py /
    \*     compute_*_coe_rolling_5yr.py ---
    pcC,                \* position of the running program
    roll_args,          \* which rolling computation runs, with --year and --window
    by_year,            \* per-season rows: (key, season) -> total_points, games_counted
    rolling_rows,       \* the rolling rows written
    components,         \* conference_coefficient_components rows of one season
    games,              \* `games`: the v_model_games rows of one season
    ratings,            \* `ratings`: team -> rating
    iterN               \* passes of `for _ in range(iterations)` done

varsB == <<pcB, impl, rulesetB, rows, ranked, total, target_total, passes,
           standings, inserted, missing_standings, playoff_qualifiers_by_year>>

varsY == <<pcY, dbY, tiersY, ci, selected>>

varsD == <<pcD, store, dbD, tx, args, qualifiers, conf_ranks, pot0, pot1, pot2,
           rng, conf_of, pairs, runs>>

varsC == <<pcC, roll_args, by_year, rolling_rows, components, games, ratings, iterN>>

vars == <<varsB, varsY, varsD, varsC>>

\* what each program leaves alone: the state of the others
notB == <<varsY, varsD, varsC>>
notY == <<varsB, varsD, varsC>>
notD == <<varsB, varsY, varsC>>
notC == <<varsB, varsY, varsD>>

\* ------------------------------------------------------------------------
\* Helpers
\* ------------------------------------------------------------------------
Min2(a, b) == IF a < b THEN a ELSE b
Max2(a, b) == IF a > b THEN a ELSE b
SetMax(S) == CHOOSE x \in S : \A y \in S : y <= x
SetMin(S) == CHOOSE x \in S : \A y \in S : x <= y
Abs(x) == IF x < 0 THEN -x ELSE x

RECURSIVE SumBids(_)
SumBids(r) == IF r = <<>> THEN 0 ELSE r[1].bids + SumBids(Tail(r))

RECURSIVE SumLen(_)
SumLen(ss) == IF ss = <<>> THEN 0 ELSE Len(ss[1]) + SumLen(Tail(ss))

\* ------------------------------------------------------------------------
\* Bid tiering
\* ------------------------------------------------------------------------
bids_year1(rank) ==
    IF 1 <= rank /\ rank <= 4 THEN 4
    ELSE IF rank = 5 THEN 3
    ELSE IF rank = 6 THEN 2
    ELSE IF 7 <= rank /\ rank <= 10 THEN 1
    ELSE 0

bids_year2plus(rank) ==
    IF 1 <= rank /\ rank <= 4 THEN 4
    ELSE IF rank = 5 THEN 3
    ELSE IF 6 <= rank /\ rank <= 10 THEN 1
    ELSE 0

apply_bid_overrides(conference, base_bids) ==
    IF conference = IND THEN Min2(base_bids, IndCap)
    ELSE IF conference = MAC THEN Max2(base_bids, 1)
    ELSE base_bids

alloc_fn(rs, i) == IF rs = "year1" THEN bids_year1(i) ELSE bids_year2plus(i)

\* The list `ranked` of get_conference_bid_map / report_bids_snapshot.main
TierRows(rs, rw) ==
    [i \in 1..Len(rw) |->
        [rank |-> i, conference |-> rw[i],
         bids |-> apply_bid_overrides(rw[i], alloc_fn(rs, i)),
         base_bids |-> alloc_fn(rs, i)]]

\* ------------------------------------------------------------------------
\* rebalance_to_total: one pass of each loop
\* ------------------------------------------------------------------------
\* the floor test alone, without `and r["bids"] > 1`
ReduceEligibleFloorOnly(r) ==
    /\ r.conference # MAC
    /\ r.bids > (IF r.conference = IND THEN 0 ELSE 1)

\* select_playoff_qualifiers.py: floor 0 for Independents, 1 otherwise, and bids > 1
ReduceEligibleSelect(r) ==
    /\ r.conference # MAC
    /\ r.bids > (IF r.conference = IND THEN 0 ELSE 1)
    /\ r.bids > 1

\* report_bids_snapshot.py
ReduceEligibleReport(r) == r.bids > 1 /\ r.conference # MAC

ReduceEligible(im, r) ==
    IF im = "select" THEN ReduceEligibleSelect(r) ELSE ReduceEligibleReport(r)

IncreaseCap(r) == IF r.conference = IND THEN IndCap ELSE BidCap

\* for r in reversed(ranked): first eligible from the bottom, 0 when none
ReduceIndex(im, rk) ==
    LET S == {i \in DOMAIN rk : ReduceEligible(im, rk[i])}
    IN IF S = {} THEN 0 ELSE SetMax(S)

\* for r in ranked: first below its cap from the top, 0 when none
IncreaseIndex(rk) ==
    LET S == {i \in DOMAIN rk : rk[i].bids < IncreaseCap(rk[i])}
    IN IF S = {} THEN 0 ELSE SetMin(S)

\* A reduce pass without the `break` after the first change
ReduceBodyNoBreak(im, rk) ==
    [i \in DOMAIN rk |->
        IF ReduceEligible(im, rk[i]) THEN [rk[i] EXCEPT !.bids = @ - 1] ELSE rk[i]]

\* Body of `while total > target_total`: the list after the for loop
ReduceBody(im, rk) ==
    LET i == ReduceIndex(im, rk)
    IN IF i = 0 THEN rk ELSE [rk EXCEPT ![i].bids = @ - 1]

\* Body of `while total < target_total`
IncreaseBody(rk) ==
    LET i == IncreaseIndex(rk)
    IN IF i = 0 THEN rk ELSE [rk EXCEPT ![i].bids = @ + 1]

NChanged(a, b) == Cardinality({i \in DOMAIN a : a[i] # b[i]})

\* ------------------------------------------------------------------------
\* select_qualifiers_for_conference
\* ------------------------------------------------------------------------
\* the selection with the champion not counted against the bids
select_qualifiers_champion_extra(st, bids) ==
    IF bids <= 0 \/ ~\E i \in DOMAIN st : st[i].conf_rank = 1 THEN <<>>
    ELSE LET champ == st[SetMin({i \in DOMAIN st : st[i].conf_rank = 1})]
             rest == SelectSeq(st, LAMBDA r : r.conf_rank > 1)
             atl == SubSeq(rest, 1, Min2(bids, Len(rest)))
         IN <<[team_id |-> champ.team_id, conf_rank |-> 1, bid_type |-> "champion"]>>
            \o [i \in 1..Len(atl) |->
                   [team_id |-> atl[i].team_id, conf_rank |-> atl[i].conf_rank,
                    bid_type |-> "at_large"]]

\* standings rows of one conference: [team_id, conf_rank], ORDER BY conf_rank ASC
select_qualifiers_for_conference(st, bids) ==
    IF bids <= 0 THEN <<>>
    ELSE IF st = <<>> THEN <<>>
    ELSE LET champs == {i \in DOMAIN st : st[i].conf_rank = 1} IN
         IF champs = {} THEN <<>>
         ELSE LET champ == st[SetMin(champs)]
                  rest == SelectSeq(st, LAMBDA r : r.conf_rank > 1)
                  needed_at_large == bids - 1
                  atl == IF needed_at_large > 0
                         THEN SubSeq(rest, 1, Min2(needed_at_large, Len(rest)))
                         ELSE <<>>
              IN <<[team_id |-> champ.team_id, conf_rank |-> 1, bid_type |-> "champion"]>>
                 \o [i \in 1..Len(atl) |->
                        [team_id |-> atl[i].team_id, conf_rank |-> atl[i].conf_rank,
                         bid_type |-> "at_large"]]

\* ------------------------------------------------------------------------
\* Inputs of the bid allocation
\* ------------------------------------------------------------------------
ConfNames == <<"C01", "C02", "C03", "C04", "C05", "C06", "C07",
               "C08", "C09", "C10", "C11", "C12", "C13", "C14">>

\* A ranking of n conferences with the Independents at rank pi and the
\* Mid-American at rank pm (0: not in the ranking)
RankingOf(n, pi, pm) ==
    [i \in 1..n |-> IF i = pi THEN IND ELSE IF i = pm THEN MAC ELSE ConfNames[i]]

Rankings ==
    {RankingOf(n, pi, pm) : n \in 0..MaxConfs, pi \in 0..MaxConfs, pm \in 0..MaxConfs}

\* Standings of one conference as the list of its conf_rank values in order;
\* the team at position p of conference number i has team_id 10*i + p
FullShape == <<1, 2, 3, 4, 5>>
StShapes == {<<>>, <<1>>, <<1, 2, 3>>, <<2, 3, 4>>, <<1, 1, 2, 3>>, FullShape}

MkStandings(i, shape) ==
    [p \in 1..Len(shape) |-> [team_id |-> 10 * i + p, conf_rank |-> shape[p]]]

OldQualifierRows ==
    {[conference |-> "C01", team_id |-> 99, conf_rank |-> 1, bid_type |-> "champion"]}

\* Ranked lists handed to rebalance_to_total directly
FreeBids == {0, 1, 2, BidCap}
FreeConfs == {IND, MAC, "C01"}
FreeRanked ==
    UNION {[1..n -> [rank : {0}, conference : FreeConfs, bids : FreeBids, base_bids : {0}]]
             : n \in 0..MaxFreeLen}

\* ------------------------------------------------------------------------
\* Actions: get_conference_bid_map, rebalance_to_total, main
\* ------------------------------------------------------------------------
InitBidCommon ==
    /\ impl \in {"select", "report"}
    /\ passes = 0
    /\ standings = <<>>
    /\ inserted = 0
    /\ missing_standings = 0

InitBid ==
    /\ InitBidCommon
    /\ pcB = "start"
    /\ rulesetB \in {"year1", "year2"}
    /\ rows \in Rankings
    /\ ranked = <<>>
    /\ total = 0
    /\ target_total = TargetTotal
    /\ playoff_qualifiers_by_year \in {{}, OldQualifierRows}

InitRebalance ==
    /\ InitBidCommon
    /\ pcB = "reduce"
    /\ rulesetB = "year2"
    /\ rows = <<>>
    /\ ranked \in FreeRanked
    /\ total = SumBids(ranked)
    /\ target_total \in 0..MaxFreeTarget
    /\ playoff_qualifiers_by_year = {}

\* get_conference_bid_map (and report_bids_snapshot.main) up to the call of
\* rebalance_to_total; `total = sum(...)` is rebalance_to_total's first line
BuildRanked ==
    /\ UNCHANGED notB
    /\ pcB = "start"
    /\ IF rows = <<>>
       THEN /\ pcB' = "fatal"
            /\ UNCHANGED <<ranked, total>>
       ELSE /\ ranked' = TierRows(rulesetB, rows)
            /\ total' = SumBids(ranked')
            /\ pcB' = "reduce"
    /\ UNCHANGED <<impl, rulesetB, rows, target_total, passes, standings,
                   inserted, missing_standings, playoff_qualifiers_by_year>>

\* One evaluation of `while total > target_total` and its body
RebalanceReduce ==
    /\ UNCHANGED notB
    /\ pcB = "reduce"
    /\ LET nr == ReduceBody(impl, ranked) IN
       IF total > target_total /\ nr # ranked
       THEN /\ ranked' = nr
            /\ total' = total - NChanged(ranked, nr)
            /\ passes' = passes + 1
            /\ pcB' = "reduce"
       ELSE /\ pcB' = "increase"
            /\ UNCHANGED <<ranked, total, passes>>
    /\ UNCHANGED <<impl, rulesetB, rows, target_total, standings,
                   inserted, missing_standings, playoff_qualifiers_by_year>>

\* One evaluation of `while total < target_total` and its body
RebalanceIncrease ==
    /\ UNCHANGED notB
    /\ pcB = "increase"
    /\ LET nr == IncreaseBody(ranked) IN
       IF total < target_total /\ nr # ranked
       THEN /\ ranked' = nr
            /\ total' = total + NChanged(ranked, nr)
            /\ passes' = passes + 1
            /\ pcB' = "increase"
       ELSE /\ pcB' = "returned"
            /\ UNCHANGED <<ranked, total, passes>>
    /\ UNCHANGED <<impl, rulesetB, rows, target_total, standings,
                   inserted, missing_standings, playoff_qualifiers_by_year>>

\* The rows main inserts for the conference at index i of the bid map
QualRows(conf, quals) ==
    {[conference |-> conf, team_id |-> quals[j].team_id,
      conf_rank |-> quals[j].conf_rank, bid_type |-> quals[j].bid_type]
        : j \in DOMAIN quals}

\* select_playoff_qualifiers.main after get_conference_bid_map returned:
\* delete, select per conference, insert, commit
MainSelect ==
    /\ UNCHANGED notB
    /\ pcB = "returned"
    /\ impl = "select"
    /\ \E sc \in 0..Len(ranked), shape \in StShapes, dry_run \in BOOLEAN :
         LET st == [i \in 1..Len(ranked) |->
                       MkStandings(i, IF i = sc THEN shape ELSE FullShape)]
             quals == [i \in 1..Len(ranked) |->
                          select_qualifiers_for_conference(st[i], ranked[i].bids)]
         IN /\ standings' = st
            /\ inserted' = SumLen(quals)
            /\ missing_standings' =
                 Cardinality({i \in DOMAIN ranked : quals[i] = <<>> /\ ranked[i].bids > 0})
            /\ playoff_qualifiers_by_year' =
                 IF dry_run THEN playoff_qualifiers_by_year
                 ELSE UNION {QualRows(ranked[i].conference, quals[i]) : i \in DOMAIN ranked}
            /\ pcB' = IF dry_run THEN "printed" ELSE "committed"
    /\ UNCHANGED <<impl, rulesetB, rows, ranked, total, target_total, passes>>

\* report_bids_snapshot.main after rebalance_to_total: prints the table
MainReport ==
    /\ UNCHANGED notB
    /\ pcB = "returned"
    /\ impl = "report"
    /\ pcB' = "printed"
    /\ UNCHANGED <<impl, rulesetB, rows, ranked, total, target_total, passes,
                   standings, inserted, missing_standings, playoff_qualifiers_by_year>>

NextBid == BuildRanked \/ RebalanceReduce \/ RebalanceIncrease \/ MainSelect \/ MainReport
NextRebalance == RebalanceReduce \/ RebalanceIncrease


\* ------------------------------------------------------------------------
\* Claims about the bid allocation
\* ------------------------------------------------------------------------

\* C3: the select_playoff_qualifiers run commits qualifier rows only when
\* exactly 24 teams were selected across all conferences (otherwise it fails
\* fatally and commits nothing).
C3_CommitOnlyWithFullField == pcB = "committed" => inserted = TargetTotal

\* C4: every bid map get_conference_bid_map returns has bids summing to
\* exactly 24 (a ranking for which 24 cannot be reached is reported, not
\* returned with another total).
C4_BidMapSumsToTarget ==
    (pcB = "returned" /\ impl = "select") => SumBids(ranked) = TargetTotal

\* C5: rebalance_to_total terminates for every ranked list and every target:
\* each loop pass either changes exactly one conference's bids by 1 towards
\* the target or leaves the loop, and the function returns.
C5_PassStep ==
    pcB \in {"reduce", "increase"} =>
        \/ /\ pcB' # pcB
           /\ ranked' = ranked
           /\ total' = total
        \/ /\ pcB' = pcB
           /\ NChanged(ranked, ranked') = 1
           /\ Abs(SumBids(ranked') - target_total) = Abs(SumBids(ranked) - target_total) - 1
           /\ total' = SumBids(ranked')

C5_RebalanceTerminates == [][C5_PassStep]_vars /\ <>(pcB = "returned")

\* rebalance_to_total made passes and returned although no legal adjustment
\* could bring the total to the target
C5_Witness == pcB = "returned" /\ passes > 0 /\ total # target_total

\* ========================================================================
\* select_playoff_qualifiers_year_2.py
\* ========================================================================
NoTeam == 0          \* Python None for a team id
NoRank == 0          \* Python None for a rank or tier
NoConf == "None"     \* Python None for a conference
MissingConfRank == 999
MissingCoeRank == 999999
NumTiers == 10
FieldSize == 24
IndepBids == 2

InSeq(x, s) == \E i \in DOMAIN s : s[i] = x
SeqRange(s) == {s[i] : i \in DOMAIN s}
IndexOf(x, s) == SetMin({i \in DOMAIN s : s[i] = x})
RemoveFirst(x, s) ==
    IF InSeq(x, s)
    THEN LET i == IndexOf(x, s) IN SubSeq(s, 1, i - 1) \o SubSeq(s, i + 1, Len(s))
    ELSE s
Reverse(s) == [i \in 1..Len(s) |-> s[Len(s) + 1 - i]]

\* Python tuple comparison of two equally long tuples of integers
RECURSIVE LexLeq(_, _)
LexLeq(a, b) ==
    IF a = <<>> THEN TRUE
    ELSE IF a[1] < b[1] THEN TRUE
    ELSE IF a[1] > b[1] THEN FALSE
    ELSE LexLeq(Tail(a), Tail(b))

\* list.sort / sorted (stable) with the keys given as a function of the element
RECURSIVE InsertByKey(_, _, _)
InsertByKey(x, s, kf) ==
    IF s = <<>> THEN <<x>>
    ELSE IF LexLeq(kf[x], kf[s[1]]) THEN <<x>> \o s
    ELSE <<s[1]>> \o InsertByKey(x, Tail(s), kf)

RECURSIVE SortByKey(_, _)
SortByKey(s, kf) ==
    IF s = <<>> THEN <<>> ELSE InsertByKey(s[1], SortByKey(Tail(s), kf), kf)

RECURSIVE SetToSortedSeq(_, _)
SetToSortedSeq(S, kf) ==
    IF S = {} THEN <<>>
    ELSE LET x == CHOOSE y \in S : \A z \in S : LexLeq(kf[y], kf[z])
         IN <<x>> \o SetToSortedSeq(S \ {x}, kf)

\* --- loaders; db is the record of the tables the run reads ---------------
\* db.standings[conf]: team ids of the rows with conf_rank NOT NULL, the
\*   row at position p having conf_rank p;  db.membership[t]: the team's
\*   team_membership_by_season row;  db.champions[conf]: the champion's
\*   team id;  db.team_ppg[t]: team_coefficient_by_year.points_per_game;
\*   db.conf_order: conference_coefficient_by_year in points_per_game order
assert_standings_present(db) == \E c \in DOMAIN db.standings : db.standings[c] # <<>>

load_all_fbs_team_ids(db) == {t \in DOMAIN db.membership : db.membership[t].is_fbs}

get_team_conf(db, t) ==
    IF t \in DOMAIN db.membership /\ db.membership[t].is_fbs
    THEN db.membership[t].conference_real ELSE NoConf

load_conference_champions(db, conf) ==
    IF conf \in DOMAIN db.champions THEN db.champions[conf] ELSE NoTeam

\* conf_rank_map.get((conf, tid), default)
conf_rank_of(db, conf, t, default) ==
    IF conf \in DOMAIN db.standings /\ InSeq(t, db.standings[conf])
    THEN IndexOf(t, db.standings[conf]) ELSE default

load_conf_topk_by_rank(db, conf, k) ==
    IF conf \in DOMAIN db.standings
    THEN SubSeq(db.standings[conf], 1, Min2(k, Len(db.standings[conf])))
    ELSE <<>>

HasCoe(db, t) == t \in DOMAIN db.team_ppg

\* ROW_NUMBER() OVER (ORDER BY points_per_game DESC, team_id ASC); coe_rank.get(t, default)
coe_rank_of(db, t, default) ==
    IF HasCoe(db, t)
    THEN 1 + Cardinality({u \in DOMAIN db.team_ppg :
                            \/ db.team_ppg[u] > db.team_ppg[t]
                            \/ db.team_ppg[u] = db.team_ppg[t] /\ u < t})
    ELSE default

load_conference_coe_ranks(db, conf) ==
    IF InSeq(conf, db.conf_order) THEN IndexOf(conf, db.conf_order) ELSE NoRank

\* the eligible conferences in tier order, Independents excluded, cut to 10
load_conference_tiers(db) ==
    LET items == SelectSeq(db.conf_order, LAMBDA c : c # IND)
    IN SubSeq(items, 1, Min2(NumTiers, Len(items)))

tier_of(tiers, conf) == IF InSeq(conf, tiers) THEN IndexOf(conf, tiers) ELSE NoRank

bids_for_tier(tier) ==
    IF 1 <= tier /\ tier <= 4 THEN 4
    ELSE IF tier = 5 THEN 3
    ELSE IF 6 <= tier /\ tier <= 10 THEN 1
    ELSE 0

slot_bye_and_pot(tier, slot) ==
    IF tier \in {1, 2} /\ slot \in {1, 2} THEN <<TRUE, 0>>
    ELSE IF 3 <= tier /\ tier <= 6 /\ slot = 1 THEN <<TRUE, 0>>
    ELSE IF tier \in {1, 2} THEN (IF slot = 3 THEN <<FALSE, 1>> ELSE <<FALSE, 2>>)
    ELSE IF tier \in {3, 4} THEN (IF slot \in {2, 3} THEN <<FALSE, 1>> ELSE <<FALSE, 2>>)
    ELSE IF tier = 5 THEN (IF slot = 2 THEN <<FALSE, 1>> ELSE <<FALSE, 2>>)
    ELSE <<FALSE, 2>>

CoeKey(db, S) == [t \in S |-> <<coe_rank_of(db, t, MissingCoeRank), t>>]

fill_conference_to_k_by_coe(db, conf, k, current) ==
    IF Len(current) >= k THEN SubSeq(current, 1, k)
    ELSE LET all_fbs == load_all_fbs_team_ids(db)
             cands == {t \in DOMAIN db.membership :
                         /\ db.membership[t].conference_real = conf
                         /\ db.membership[t].is_fbs
                         /\ t \in all_fbs /\ HasCoe(db, t) /\ ~InSeq(t, current)}
             sorted == SetToSortedSeq(cands, CoeKey(db, cands))
             needed == k - Len(current)
         IN current \o SubSeq(sorted, 1, Min2(needed, Len(sorted)))

\* sort_key_drop / slot_sort_key
SlotKey(db, conf, S) ==
    [t \in S |-> <<conf_rank_of(db, conf, t, MissingConfRank),
                   coe_rank_of(db, t, MissingCoeRank), t>>]

\* while len(topk) > k and non_champs: drop = non_champs.pop(0); ...
RECURSIVE DropWorst(_, _, _)
DropWorst(topk, non_champs, k) ==
    IF Len(topk) > k /\ non_champs # <<>>
    THEN DropWorst(RemoveFirst(non_champs[1], topk), Tail(non_champs), k)
    ELSE topk

\* The body of the conference loop up to the hard clamp: the conference's
\* teams in slot order
ConferenceSlots(db, conf, tier) ==
    LET k == bids_for_tier(tier)
        all_fbs == load_all_fbs_team_ids(db)
        topk0 == load_conf_topk_by_rank(db, conf, k)
        champ_id == load_conference_champions(db, conf)
        topk1 == IF champ_id # NoTeam /\ champ_id \in all_fbs /\ ~InSeq(champ_id, topk0)
                 THEN Append(topk0, champ_id) ELSE topk0
        topk2 == SelectSeq(topk1, LAMBDA t : t \in all_fbs)
        topk3 == fill_conference_to_k_by_coe(db, conf, k, topk2)
        topk4 == IF champ_id # NoTeam /\ Len(topk3) > k
                 THEN LET nc == SelectSeq(topk3, LAMBDA t : t # champ_id)
                          worst == Reverse(SortByKey(nc, SlotKey(db, conf, SeqRange(nc))))
                      IN DropWorst(topk3, worst, k)
                 ELSE topk3
        sorted == SortByKey(topk4, SlotKey(db, conf, SeqRange(topk4)))
        forced == IF champ_id # NoTeam /\ InSeq(champ_id, sorted)
                  THEN <<champ_id>> \o RemoveFirst(champ_id, sorted) ELSE sorted
    IN IF Len(forced) > k THEN SubSeq(forced, 1, k) ELSE forced

\* The SelectedTeam that add() builds
MkSelected(db, tiers, t, bid_type, pot) ==
    LET conf == get_team_conf(db, t) IN
    [team_id |-> t,
     conference |-> conf,
     conf_tier |-> IF conf # NoConf THEN tier_of(tiers, conf) ELSE NoRank,
     conf_rank |-> IF conf # NoConf THEN conf_rank_of(db, conf, t, NoRank) ELSE NoRank,
     conf_coe_rank |-> IF conf # NoConf THEN load_conference_coe_ranks(db, conf) ELSE NoRank,
     coe_rank |-> coe_rank_of(db, t, MissingCoeRank),
     bid_type |-> bid_type,
     pot |-> pot]

\* add(): nothing when the team is selected already
add(sel, rec) == IF \E i \in DOMAIN sel : sel[i].team_id = rec.team_id THEN sel ELSE Append(sel, rec)

RECURSIVE AddSlots(_, _, _, _, _, _)
AddSlots(db, tiers, sel, slots, tier, slot) ==
    IF slot > Len(slots) THEN sel
    ELSE LET t == slots[slot]
             bp == slot_bye_and_pot(tier, slot)
             champ_id == load_conference_champions(db, tiers[tier])
             bid_type == IF bp[1] THEN "bye"
                         ELSE IF champ_id # NoTeam /\ t = champ_id THEN "champion"
                         ELSE "at_large"
         IN AddSlots(db, tiers, add(sel, MkSelected(db, tiers, t, bid_type, bp[2])),
                     slots, tier, slot + 1)

\* the Independents in CoE order
IndependentIds(db) ==
    LET S == {t \in load_all_fbs_team_ids(db) : get_team_conf(db, t) = IND /\ HasCoe(db, t)}
    IN SetToSortedSeq(S, CoeKey(db, S))

\* ------------------------------------------------------------------------
\* Inputs of select_year2_field
\* ------------------------------------------------------------------------
\* Conference number i has the teams 10*i + 1 .. 10*i + TeamsPerConf, the
\* Independents are 201, 202, ...  Every conference but number sc is
\* regular (all its teams FBS, ranked in id order, with a CoE row, the
\* rank-1 team its champion); conference sc has only its first nRanked
\* teams ranked, its team pNonFbs not FBS, CoE rows for its first nCoe
\* teams only, and champion champ (0: none, TeamsPerConf + 1: the second
\* team of the next conference).
TeamId(i, p) == 10 * i + p
IndepId(j) == 200 + j

ConfOrder(nConfs) ==
    [i \in 1..(nConfs + 1) |->
        IF i < 3 THEN ConfNames[i] ELSE IF i = 3 THEN IND ELSE ConfNames[i - 1]]

MkDbY(nConfs, sc, nRanked, pNonFbs, nCoe, champ, nIndep) ==
    LET confs == 1..nConfs
        teams == {TeamId(i, p) : i \in confs, p \in 1..TeamsPerConf}
        indeps == {IndepId(j) : j \in 1..nIndep}
        other == (sc % NumTiers) + 1
    IN [standings |->
          [c \in {ConfNames[i] : i \in confs} |->
              LET i == CHOOSE j \in confs : ConfNames[j] = c
              IN [p \in 1..(IF i = sc THEN nRanked ELSE TeamsPerConf) |-> TeamId(i, p)]],
        membership |->
          [t \in teams \cup indeps |->
              IF t \in indeps THEN [conference_real |-> IND, is_fbs |-> TRUE]
              ELSE [conference_real |-> ConfNames[t \div 10],
                    is_fbs |-> ~(t \div 10 = sc /\ t % 10 = pNonFbs)]],
        champions |->
          [c \in {ConfNames[i] : i \in confs \ (IF champ = 0 THEN {sc} ELSE {})} |->
              LET i == CHOOSE j \in confs : ConfNames[j] = c
              IN IF i # sc THEN TeamId(i, 1)
                 ELSE IF champ <= TeamsPerConf THEN TeamId(sc, champ)
                 ELSE TeamId(other, 2)],
        team_ppg |->
          [t \in {u \in teams \cup indeps : ~(u \div 10 = sc /\ u % 10 > nCoe)} |-> 1000 - t],
        conf_order |-> ConfOrder(nConfs)]

DbYInputs ==
    {MkDbY(NumTiers, sc, nRanked, pNonFbs, nCoe, champ, nIndep) :
        sc \in 1..NumTiers, nRanked \in 0..TeamsPerConf, pNonFbs \in 0..2,
        nCoe \in (TeamsPerConf - 2)..TeamsPerConf,
        champ \in {0, 1, 2, TeamsPerConf, TeamsPerConf + 1}, nIndep \in 0..MaxIndep}
    \cup {MkDbY(n, 1, TeamsPerConf, 0, TeamsPerConf, 1, IndepBids) :
            n \in {NumTiers - 1, NumTiers + 1}}
    \cup {[MkDbY(NumTiers, 1, TeamsPerConf, 0, TeamsPerConf, 1, IndepBids)
             EXCEPT !.standings = [c \in DOMAIN @ |-> <<>>]]}

\* the hard size check that ends select_year2_field
SizeCheckOff(sel) == TRUE

SizeOk(sel) == Len(sel) = FieldSize

\* ------------------------------------------------------------------------
\* Actions of select_year2_field
\* ------------------------------------------------------------------------
InitY2 ==
    /\ pcY = "start"
    /\ dbY \in DbYInputs
    /\ tiersY = <<>>
    /\ ci = 0
    /\ selected = <<>>

\* assert_standings_present and the loaders, each of which may raise
Y2Load ==
    /\ UNCHANGED notY
    /\ pcY = "start"
    /\ IF ~assert_standings_present(dbY) THEN pcY' = "raised" /\ UNCHANGED <<tiersY, ci>>
       ELSE IF Len(load_conference_tiers(dbY)) < NumTiers
            THEN pcY' = "raised" /\ UNCHANGED <<tiersY, ci>>
       ELSE IF DOMAIN dbY.team_ppg = {} THEN pcY' = "raised" /\ UNCHANGED <<tiersY, ci>>
       ELSE /\ tiersY' = load_conference_tiers(dbY)
            /\ ci' = 1
            /\ pcY' = "conf"
    /\ UNCHANGED <<dbY, selected>>

\* one iteration of `for conf, tier in sorted(tiers.items(), ...)`
Y2Conference ==
    /\ UNCHANGED notY
    /\ pcY = "conf"
    /\ LET conf == tiersY[ci]
           k == bids_for_tier(ci)
       IN selected' =
            IF conf = IND \/ k <= 0 THEN selected
            ELSE AddSlots(dbY, tiersY, selected, ConferenceSlots(dbY, conf, ci), ci, 1)
    /\ IF ci = Len(tiersY) THEN pcY' = "indep" /\ ci' = ci
       ELSE pcY' = "conf" /\ ci' = ci + 1
    /\ UNCHANGED <<dbY, tiersY>>

\* Independents: fixed 2 bids by CoE
Y2Independents ==
    /\ UNCHANGED notY
    /\ pcY = "indep"
    /\ LET ids == IndependentIds(dbY)
           first == IF Len(ids) >= 1
                    THEN add(selected, MkSelected(dbY, tiersY, ids[1], "at_large", 1))
                    ELSE selected
       IN selected' = IF Len(ids) >= IndepBids
                      THEN add(first, MkSelected(dbY, tiersY, ids[2], "at_large", 2))
                      ELSE first
    /\ pcY' = "check"
    /\ UNCHANGED <<dbY, tiersY, ci>>

\* `if len(selected) != field_size: raise`, else return
Y2SizeCheck ==
    /\ UNCHANGED notY
    /\ pcY = "check"
    /\ pcY' = IF SizeOk(selected) THEN "returned" ELSE "raised"
    /\ UNCHANGED <<dbY, tiersY, ci, selected>>

NextY2 == Y2Load \/ Y2Conference \/ Y2Independents \/ Y2SizeCheck

\* ------------------------------------------------------------------------
\* Claims about select_year2_field
\* ------------------------------------------------------------------------

\* C1: select_year2_field either raises or returns exactly field_size (24)
\* pairwise-distinct teams; it never returns a field of another size.
C1_FieldSizeOrRaise ==
    pcY = "returned" =>
        /\ Len(selected) = FieldSize
        /\ \A i, j \in DOMAIN selected :
              selected[i].team_id = selected[j].team_id => i = j

\* a field was returned
C1_Witness == pcY = "returned" /\ Len(selected) = FieldSize

NumRankedFbs(db, conf) ==
    Cardinality({t \in SeqRange(db.standings[conf]) : t \in load_all_fbs_team_ids(db)})

\* the precondition of C2
Y2Pre(db) ==
    LET tiers == load_conference_tiers(db) IN
    /\ Len(tiers) = NumTiers
    /\ \A tier \in DOMAIN tiers :
          /\ tiers[tier] \in DOMAIN db.standings
          /\ NumRankedFbs(db, tiers[tier]) >= bids_for_tier(tier)
    /\ \A c1, c2 \in DOMAIN db.standings :
          c1 # c2 => SeqRange(db.standings[c1]) \cap SeqRange(db.standings[c2]) = {}
    /\ \A c \in DOMAIN db.standings : \A t \in SeqRange(db.standings[c]) :
          t \in DOMAIN db.membership => db.membership[t].conference_real = c
    /\ \A c \in DOMAIN db.champions : InSeq(db.champions[c], db.standings[c])
    /\ Len(IndependentIds(db)) >= IndepBids

\* C2: with 10 tiered conferences that each have at least as many ranked
\* FBS teams as their tier's bids, no team in two conferences and at least
\* two CoE-ranked Independents, select_year2_field returns exactly 24
\* teams: 22 from the tiered conferences and 2 Independents.
C2_FullDataGivesField ==
    (pcY \in {"returned", "raised"} /\ Y2Pre(dbY)) =>
        /\ pcY = "returned"
        /\ Len(selected) = FieldSize
        /\ Cardinality({i \in DOMAIN selected : selected[i].conference # IND})
              = FieldSize - IndepBids
        /\ Cardinality({i \in DOMAIN selected : selected[i].conference = IND}) = IndepBids

\* ========================================================================
\* The draw (draw_playoff_year1.py, draw_playoff_year_2.py) and the
\* Round-of-24 pairing (build_round_of_24_year2.py)
\* ========================================================================
Byes == 8                \* len(pot0) != 8
PotTarget == 8           \* rebalance_pots_to_8_8: target = 8
NoCoeRank == 999         \* conf_ranks.get(conf, 999)
BracketSlots == 24       \* len(rows) != 24
UnknownConf == "UNKNOWN"
DefaultSeed == 20250101  \* --seed default

\* Python str comparison a < b; a string is the sequence of its character codes
RECURSIVE StrLess(_, _)
StrLess(a, b) ==
    IF b = <<>> THEN FALSE
    ELSE IF a = <<>> THEN TRUE
    ELSE IF a[1] # b[1] THEN a[1] < b[1]
    ELSE StrLess(Tail(a), Tail(b))

\* str(n) of a non-negative integer
RECURSIVE Digits(_)
Digits(n) == IF n < 10 THEN <<48 + n>> ELSE Digits(n \div 10) \o <<48 + (n % 10)>>

\* f"team_id={team_id}"
FallbackName(team_id) == <<116, 101, 97, 109, 95, 105, 100, 61>> \o Digits(team_id)

\* --- readers of the stored input tables; st is the record of the tables --
\* conference -> 1..N in ORDER BY total_points_5yr DESC, points_per_game_5yr
\* DESC, conference ASC; st.conf_rows holds the conferences in that order
get_conference_coe_ranks(st) ==
    [c \in SeqRange(st.conf_rows) |-> IndexOf(c, st.conf_rows)]

\* conf_ranks.get(conf, 999)
RankGet(cr, conf) == IF conf \in DOMAIN cr THEN cr[conf] ELSE NoCoeRank

get_conf_rank(st, conference, team_id) ==
    IF <<conference, team_id>> \in DOMAIN st.standings
    THEN st.standings[<<conference, team_id>>]
    ELSE NoRank

\* (total_points_5yr, points_per_game_5yr); missing => (0, 0)
team_strength_key(st, team_id) ==
    IF team_id \in DOMAIN st.team_coe THEN st.team_coe[team_id] ELSE <<0, 0>>

get_team_name(st, team_id) ==
    IF team_id \in DOMAIN st.teams THEN st.teams[team_id] ELSE FallbackName(team_id)

resolve_team_id_by_name(st, team_name) ==
    IF \E t \in DOMAIN st.teams : st.teams[t] = team_name
    THEN SetMin({t \in DOMAIN st.teams : st.teams[t] = team_name})
    ELSE NoTeam

\* (conf_coe_rank, conf_rank, conference) of the team's playoff_pots_by_year row
get_pot_meta(pots, team_id) ==
    IF team_id \in DOMAIN pots
    THEN <<pots[team_id].conf_coe_rank, pots[team_id].conf_rank, pots[team_id].conference>>
    ELSE <<NoCoeRank, NoCoeRank, UnknownConf>>

\* --- the rule tables -----------------------------------------------------
assign_pot_year1(r, f) ==
    IF r \in {1, 2} THEN
        (IF f \in {1, 2} THEN 0 ELSE IF f = 3 THEN 1 ELSE 2)
    ELSE IF r \in {3, 4} THEN
        (IF f = 1 THEN 0 ELSE IF f \in {2, 3} THEN 1 ELSE 2)
    ELSE IF r = 5 THEN
        (IF f = 1 THEN 0 ELSE IF f = 2 THEN 1 ELSE 2)
    ELSE IF r = 6 THEN
        (IF f = 1 THEN 0 ELSE IF f = 2 THEN 1 ELSE 2)
    ELSE 2

\* the year-2 table with the year-1 cell for the rank-6 runner-up
assign_pot_year2_runner_up(r, f) == assign_pot_year1(r, f)

assign_pot_year2(r, f) ==
    IF r \in {1, 2} THEN
        (IF f \in {1, 2} THEN 0 ELSE IF f = 3 THEN 1 ELSE 2)
    ELSE IF r \in {3, 4} THEN
        (IF f = 1 THEN 0 ELSE IF f \in {2, 3} THEN 1 ELSE 2)
    ELSE IF r = 5 THEN
        (IF f = 1 THEN 0 ELSE IF f = 2 THEN 1 ELSE 2)
    ELSE IF r = 6 THEN
        (IF f = 1 THEN 0 ELSE 2)
    ELSE 2

assign_pot(prog, r, f) ==
    IF prog = "draw1" THEN assign_pot_year1(r, f) ELSE assign_pot_year2(r, f)

\* --- the tables of the key; a table is a function from its key column ----

\* INSERT OR REPLACE of one row
Upsert(table, key, row) ==
    [k \in DOMAIN table \cup {key} |-> IF k = key THEN row ELSE table[k]]

\* UPDATE ... SET pot=? WHERE team_id=?  (no row, no change)
SetPot(pots, team_id, pot) ==
    [t \in DOMAIN pots |-> IF t = team_id THEN [pots[t] EXCEPT !.pot = pot] ELSE pots[t]]

EmptyTables ==
    [pots |-> <<>>, field |-> <<>>, bracket |-> <<>>,
     bracket_year1 |-> <<>>, draws |-> <<>>, games |-> <<>>]


\* --- rebalance_pots_to_8_8 -----------------------------------------------
\* the candidate tuples; the name is a string, the other components numbers
PromoteKey(st, pots, tid) ==
    LET k == team_strength_key(st, tid)
        m == get_pot_meta(pots, tid)
    IN <<k[1], k[2], 0 - m[1], 0 - m[2], get_team_name(st, tid), tid>>

DemoteKey(st, pots, tid) ==
    LET k == team_strength_key(st, tid)
        m == get_pot_meta(pots, tid)
    IN <<k[1], k[2], m[1], m[2], get_team_name(st, tid), tid>>

\* Python tuple comparison a < b of two candidate tuples
CandLess(a, b) ==
    IF a[1] # b[1] THEN a[1] < b[1]
    ELSE IF a[2] # b[2] THEN a[2] < b[2]
    ELSE IF a[3] # b[3] THEN a[3] < b[3]
    ELSE IF a[4] # b[4] THEN a[4] < b[4]
    ELSE IF a[5] # b[5] THEN StrLess(a[5], b[5])
    ELSE a[6] < b[6]

\* candidates.sort(reverse=True); candidates[0][-1]
promote_tid(st, pots, p2) ==
    CHOOSE tid \in SeqRange(p2) : \A u \in SeqRange(p2) :
        ~CandLess(PromoteKey(st, pots, tid), PromoteKey(st, pots, u))

\* candidates2.sort(); candidates2[0][-1]
demote_tid(st, pots, p1) ==
    CHOOSE tid \in SeqRange(p1) : \A u \in SeqRange(p1) :
        ~CandLess(DemoteKey(st, pots, u), DemoteKey(st, pots, tid))

PromoteCond(p1, p2) == Len(p1) < PotTarget /\ Len(p2) > PotTarget
DemoteCond(p1, p2) == Len(p1) > PotTarget /\ Len(p2) < PotTarget

\* --- apply_nit_policy_overrides ------------------------------------------
NoName == <<>>       \* --nit-team not given

\* step 1: place the NIT team by its conference's rank
NitPlaceTeam(pots, nit_rank, nit_team_id, p1, p2) ==
    LET same == [pots |-> pots, pot1 |-> p1, pot2 |-> p2] IN
    IF nit_team_id = NoTeam \/ nit_team_id \notin DOMAIN pots THEN same
    ELSE
    LET desired_pot == IF nit_rank <= 6 THEN 1 ELSE 2
        current_pot == pots[nit_team_id].pot
        q1 == IF current_pot = 1 THEN RemoveFirst(nit_team_id, p1) ELSE p1
        q2 == IF current_pot = 2 THEN RemoveFirst(nit_team_id, p2) ELSE p2
    IN  IF current_pot = desired_pot THEN same
        ELSE [pots |-> SetPot(pots, nit_team_id, desired_pot),
              pot1 |-> IF desired_pot = 1 THEN Append(q1, nit_team_id) ELSE q1,
              pot2 |-> IF desired_pot = 1 THEN q2 ELSE Append(q2, nit_team_id)]

\* step 2: NIT conference ranked 7-10 => the champion of conference #7 to pot 1
NitPromoteConf7(cur, cr, nit_rank) ==
    LET conf7s == {c \in DOMAIN cr : cr[c] = 7}
        champs == {t \in DOMAIN cur.pots :
                      cur.pots[t].conference \in conf7s /\ cur.pots[t].conf_rank = 1}
    IN  IF ~(7 <= nit_rank /\ nit_rank <= 10) \/ champs = {} THEN cur
        ELSE LET tid == SetMin(champs) IN
             IF cur.pots[tid].pot = 1 THEN cur
             ELSE LET q2 == RemoveFirst(tid, cur.pot2) IN
                  [pots |-> SetPot(cur.pots, tid, 1),
                   pot1 |-> IF InSeq(tid, cur.pot1) THEN cur.pot1 ELSE Append(cur.pot1, tid),
                   pot2 |-> q2]

apply_nit_policy_overrides(pots, cr, nit_conference, nit_team_id, p1, p2) ==
    LET same == [pots |-> pots, pot1 |-> p1, pot2 |-> p2] IN
    IF nit_conference = NoConf /\ nit_team_id = NoTeam THEN same
    ELSE
    LET conf == IF nit_team_id # NoTeam /\ nit_conference = NoConf
                THEN (IF nit_team_id \in DOMAIN pots
                      THEN pots[nit_team_id].conference ELSE NoConf)
                ELSE nit_conference
    IN  IF conf = NoConf THEN same
        ELSE LET nit_rank == RankGet(cr, conf) IN
             NitPromoteConf7(NitPlaceTeam(pots, nit_rank, nit_team_id, p1, p2), cr, nit_rank)

\* --- random.Random(seed) and rng.shuffle ---------------------------------
\* The generator is a deterministic stream fixed by the seed; each call of
\* randbelow advances it by one step.
RngMod == 65537
SeedRng(seed) == seed % RngMod
RngNext(s) == (75 * s + 74) % RngMod

\* for i in reversed(range(1, len(x))): j = randbelow(i + 1); x[i], x[j] = x[j], x[i]
\* (i is Python's 0-based index)
RECURSIVE ShuffleFrom(_, _, _)
ShuffleFrom(x, i, s) ==
    IF i < 1 THEN [list |-> x, rng |-> s]
    ELSE LET s2 == RngNext(s)
             j == s2 % (i + 1)
         IN ShuffleFrom([x EXCEPT ![i + 1] = x[j + 1], ![j + 1] = x[i + 1]], i - 1, s2)

shuffle(x, s) == ShuffleFrom(x, Len(x) - 1, s)

\* slots 1..8 byes, 9..16 pot 1, 17..24 pot 2, each INSERT OR REPLACE by slot
RECURSIVE WriteSlots(_, _, _, _, _)
WriteSlots(bracket, list, pot, slot, seed) ==
    IF list = <<>> THEN bracket
    ELSE WriteSlots(Upsert(bracket, slot, [team_id |-> list[1], pot |-> pot, draw_seed |-> seed]),
                    Tail(list), pot, slot + 1, seed)

MakeBracket(bracket, p0, p1, p2, seed) ==
    WriteSlots(WriteSlots(WriteSlots(bracket, p0, 0, 1, seed),
                          p1, 1, 1 + Len(p0), seed),
               p2, 2, 1 + Len(p0) + Len(p1), seed)


\* --- build_round_of_24_year2.py ------------------------------------------
\* (total_points_5yr, points_per_game_5yr, team_name) through teams LEFT JOIN
\* team_coefficient_rolling_5yr: without a teams row everything is the fallback
strength_key(st, team_id) ==
    IF team_id \notin DOMAIN st.teams THEN <<0, 0, FallbackName(team_id)>>
    ELSE LET name == IF st.teams[team_id] # <<>> THEN st.teams[team_id]
                     ELSE FallbackName(team_id)
             k == team_strength_key(st, team_id)
         IN <<k[1], k[2], name>>

\* home and away chosen without the points-per-game comparison
choose_home_away_no_ppg(st, a, b) ==
    LET ka == strength_key(st, a)
        kb == strength_key(st, b)
    IN  IF ka[1] # kb[1] THEN (IF ka[1] > kb[1] THEN <<a, b>> ELSE <<b, a>>)
        ELSE IF StrLess(ka[3], kb[3]) THEN <<a, b>> ELSE <<b, a>>

choose_home_away(st, a, b) ==
    LET ka == strength_key(st, a)
        kb == strength_key(st, b)
    IN  IF ka[1] # kb[1] THEN (IF ka[1] > kb[1] THEN <<a, b>> ELSE <<b, a>>)
        ELSE IF ka[2] # kb[2] THEN (IF ka[2] > kb[2] THEN <<a, b>> ELSE <<b, a>>)
        ELSE IF StrLess(ka[3], kb[3]) THEN <<a, b>> ELSE <<b, a>>

\* {team_id: conference} of the playoff_field_by_year rows
load_team_conferences(field) == [t \in DOMAIN field |-> field[t].conference]

\* candidate list that keeps the preferred opponent without the conference test
CandidatesKeepPreferred(p1, p2, cf, preferred, i) ==
    LET a == p1[i]
        pref_b == preferred[i]
    IN  <<pref_b>> \o SelectSeq(p2, LAMBDA b : b # pref_b /\ cf[a] # cf[b])

\* candidate list in pot-2 order, the preferred opponent not moved to the front
CandidatesPotOrder(p1, p2, cf, preferred, i) ==
    SelectSeq(p2, LAMBDA b : cf[p1[i]] # cf[b])

\* the candidate list of pot1[i]: preferred first, then the rest in pot-2 order
Candidates(p1, p2, cf, preferred, i) ==
    LET a == p1[i]
        pref_b == preferred[i]
    IN  (IF cf[a] # cf[pref_b] THEN <<pref_b>> ELSE <<>>)
        \o SelectSeq(p2, LAMBDA b : b # pref_b /\ cf[a] # cf[b])

PairsNone == [none |-> TRUE, list |-> <<>>]     \* Python None

\* dfs without the retry: gives up when the first unused candidate fails
RECURSIVE dfs_greedy(_, _, _, _, _, _)
dfs_greedy(cands, p1, i, k, used, result) ==
    IF i > Len(p1) THEN [none |-> FALSE, list |-> result]
    ELSE IF k > Len(cands[i]) THEN PairsNone
    ELSE LET b == cands[i][k] IN
         IF b \in used THEN dfs_greedy(cands, p1, i, k + 1, used, result)
         ELSE dfs_greedy(cands, p1, i + 1, 1, used \cup {b}, Append(result, <<p1[i], b>>))

\* dfs(i), entered at candidate k of pot1[i] with `used` and `result` as they are
RECURSIVE dfs(_, _, _, _, _, _)
dfs(cands, p1, i, k, used, result) ==
    IF i > Len(p1) THEN [none |-> FALSE, list |-> result]
    ELSE IF k > Len(cands[i]) THEN PairsNone
    ELSE LET b == cands[i][k] IN
         IF b \in used THEN dfs(cands, p1, i, k + 1, used, result)
         ELSE LET r == dfs(cands, p1, i + 1, 1, used \cup {b}, Append(result, <<p1[i], b>>))
              IN IF ~r.none THEN r ELSE dfs(cands, p1, i, k + 1, used, result)

backtrack_pairings(p1, p2, cf, preferred) ==
    dfs([i \in DOMAIN p1 |-> Candidates(p1, p2, cf, preferred, i)], p1, 1, 1, {}, <<>>)

\* `if not pairs`: None and the empty list
NotPairs(pr) == pr.none \/ pr.list = <<>>

\* the R24 rows main inserts, keyed by game_no
GameRow(st, p1, p2, pair) ==
    LET a_team == pair[1]
        b_team == pair[2]
        ha == choose_home_away(st, a_team, b_team)
        a_slot == 8 + IndexOf(a_team, p1)      \* pot1_slots = range(9, 17)
        b_slot == 16 + IndexOf(b_team, p2)     \* pot2_slots = range(17, 25)
    IN  IF ha[1] = a_team
        THEN [home_team_id |-> ha[1], away_team_id |-> ha[2],
              home_slot |-> a_slot, away_slot |-> b_slot, home_pot |-> 1, away_pot |-> 2]
        ELSE [home_team_id |-> ha[1], away_team_id |-> ha[2],
              home_slot |-> b_slot, away_slot |-> a_slot, home_pot |-> 2, away_pot |-> 1]

GameRows(st, p1, p2, list) == [i \in DOMAIN list |-> GameRow(st, p1, p2, list[i])]


\* --- stored inputs of the draw -------------------------------------------
MaxRuns == 3

\* the qualifier fields the draws are run on: the conf_rank values of each
\* conference's qualifiers, by conference rank (the year-2 field, the year-1
\* field, a field with tied finishes, fields of 23 and 25, a field with seven
\* champions of the top eight conferences, a field whose one promotion is
\* between two teams tied on the finish, and no qualifiers at all)
Shapes ==
    LET F4 == <<1, 2, 3, 4>>
        F3 == <<1, 2, 3>>
        F1 == <<1>>
        T4 == <<1, 2, 3, 3>>
    IN  { <<F4, F4, F4, F4, F3, F1, F1, F1, F1, F1>>,
          <<F4, F4, F4, F3, F3, <<1, 2>>, F1, F1, F1, F1>>,
          <<F4, F4, T4, T4, F3, F1, F1, F1, F1, F1>>,
          <<F4, F4, F4, F4, F3, F1, F1, F1, F1, <<>> >>,
          <<F4, F4, F4, F4, F3, F1, F1, F1, F1, F1, F1>>,
          <<F4, F4, F4, F4, F3, <<>>, F1, F1, F1, F1>>,
          << <<1, 2, 3, 4, 4>>, F4, F4, F4, <<1, 2>>, F1, F1, F1, F1, F1>>,
          <<>> }
RankedConfs == 10    \* conferences with a rolling coefficient row


TeamName(t) == <<84>> \o Digits(999 - t)

MkStore(shape, profile) ==
    LET rp == UNION {{<<r, p>> : p \in DOMAIN shape[r]} : r \in DOMAIN shape}
        ids == {TeamId(x[1], x[2]) : x \in rp}
    IN  [qualifier_rows |->
            {[conference |-> ConfNames[x[1]], team_id |-> TeamId(x[1], x[2]),
              bid_type |-> IF shape[x[1]][x[2]] = 1 THEN "champion" ELSE "at_large",
              conf_rank |-> shape[x[1]][x[2]]] : x \in rp},
         conf_rows |-> SubSeq(ConfNames, 1, RankedConfs),
         \* standings rows exist for the conferences of odd rank only
         standings |->
            [k \in {<<ConfNames[x[1]], TeamId(x[1], x[2])>> : x \in {y \in rp : y[1] % 2 = 1}}
                |-> shape[k[2] \div 10][k[2] % 10]],
         team_coe |->
            IF profile = "no_rows" THEN <<>>
            ELSE [t \in ids |-> IF profile = "strong_first"
                                THEN <<300 - t, 10>> ELSE <<t, 10>>],
         \* the last team of the field has no teams row
         teams |-> [t \in {u \in ids : u < 100} |-> TeamName(t)]]

Stores == {MkStore(sh, pf) : sh \in Shapes, pf \in {"strong_first", "strong_last", "no_rows"}}

NitOptions ==
    {[nit_conference |-> NoConf, nit_team |-> NoName],
     [nit_conference |-> NoConf, nit_team |-> TeamName(11)],
     [nit_conference |-> NoConf, nit_team |-> TeamName(14)],
     [nit_conference |-> NoConf, nit_team |-> TeamName(71)],
     [nit_conference |-> "C08", nit_team |-> NoName]}

DrawArgs(prog) ==
    {[prog |-> prog, seed |-> sd, nit_conference |-> n.nit_conference, nit_team |-> n.nit_team] :
        sd \in {DefaultSeed, DefaultSeed + 1},
        n \in IF prog = "draw2" THEN NitOptions
              ELSE {[nit_conference |-> NoConf, nit_team |-> NoName]}}

PairArgs == [prog |-> "pair", seed |-> 0, nit_conference |-> NoConf, nit_team |-> NoName]

\* load_qualifiers has no ORDER BY: the rows come in an order the engine picks
ReadOrders(rowset) ==
    LET ids == {q.team_id : q \in rowset}
        asc == IF ids = {} THEN <<>>
               ELSE SelectSeq([i \in 1..(SetMax(ids) - SetMin(ids) + 1) |-> SetMin(ids) + i - 1],
                              LAMBDA t : t \in ids)
        byid == [t \in ids |-> CHOOSE q \in rowset : q.team_id = t]
    IN  {[i \in DOMAIN asc |-> byid[asc[i]]],
         [i \in DOMAIN asc |-> byid[asc[Len(asc) + 1 - i]]]}

\* --- draw_playoff_year1.main / draw_playoff_year_2.main -------------------
Rest == {"ready", "committed", "aborted"}

DrawRuns == {i \in DOMAIN runs : runs[i].args.prog # "pair"}

\* DELETE FROM ... WHERE the key: year 1 clears the pots and its own bracket
\* table, year 2 the pots, the field, the bracket and the draw metadata
ClearOutputs(prog, t) ==
    IF prog = "draw1"
    THEN [t EXCEPT !.pots = <<>>, !.bracket_year1 = <<>>]
    ELSE [t EXCEPT !.pots = <<>>, !.field = <<>>,
                   !.bracket = <<>>, !.draws = <<>>]

\* one pass of `for q in qualifiers`
AssignOne(st, prog, cr, q, acc) ==
    LET conf_coe_rank == RankGet(cr, q.conference)
        found == get_conf_rank(st, q.conference, q.team_id)
        conf_finish == IF found = NoRank THEN q.conf_rank ELSE found
        pot == assign_pot(prog, conf_coe_rank, conf_finish)
    IN  [pots |-> Upsert(acc.pots, q.team_id,
                         [conference |-> q.conference, conf_rank |-> conf_finish,
                          conf_coe_rank |-> conf_coe_rank, pot |-> pot,
                          bid_type |-> q.bid_type]),
         pot0 |-> IF pot = 0 THEN Append(acc.pot0, q.team_id) ELSE acc.pot0,
         pot1 |-> IF pot = 1 THEN Append(acc.pot1, q.team_id) ELSE acc.pot1,
         pot2 |-> IF pot \notin {0, 1} THEN Append(acc.pot2, q.team_id) ELSE acc.pot2]

RECURSIVE AssignAll(_, _, _, _, _)
AssignAll(st, prog, cr, qs, acc) ==
    IF qs = <<>> THEN acc
    ELSE AssignAll(st, prog, cr, Tail(qs), AssignOne(st, prog, cr, qs[1], acc))

\* a fatal error that keeps the statements run so far
AbortKeepsWrites ==
    /\ pcD' = "aborted"
    /\ tx' = tx
    /\ dbD' = tx
    /\ runs' = Append(runs, [args |-> args, outcome |-> "aborted", db |-> tx])

\* the run ends with SystemExit: the connection is closed without a commit
Abort ==
    /\ pcD' = "aborted"
    /\ tx' = dbD
    /\ runs' = Append(runs, [args |-> args, outcome |-> "aborted", db |-> dbD])
    /\ UNCHANGED dbD

\* conn.commit()
Commit(t) ==
    /\ pcD' = "committed"
    /\ tx' = t
    /\ dbD' = t
    /\ runs' = Append(runs, [args |-> args, outcome |-> "committed", db |-> t])

DrawStart ==
    /\ UNCHANGED notD
    /\ pcD \in Rest
    /\ Len(runs) < MaxRuns
    /\ \E a \in (IF DrawRuns = {} THEN DrawArgs("draw1") \cup DrawArgs("draw2")
                 ELSE {runs[SetMax(DrawRuns)].args}),
          rd \in ReadOrders(store.qualifier_rows) :
          /\ args' = a
          /\ rng' = SeedRng(a.seed)
          /\ qualifiers' = rd
          /\ IF rd = <<>>
             THEN /\ pcD' = "aborted"
                  /\ tx' = dbD
                  /\ runs' = Append(runs, [args |-> a, outcome |-> "aborted", db |-> dbD])
                  /\ conf_ranks' = <<>>
             ELSE /\ pcD' = "assign"
                  /\ tx' = ClearOutputs(a.prog, dbD)
                  /\ runs' = runs
                  /\ conf_ranks' = get_conference_coe_ranks(store)
    /\ pot0' = <<>> /\ pot1' = <<>> /\ pot2' = <<>>
    /\ conf_of' = <<>> /\ pairs' = PairsNone
    /\ UNCHANGED <<store, dbD>>

DrawAssign ==
    /\ UNCHANGED notD
    /\ pcD = "assign"
    /\ LET acc == AssignAll(store, args.prog, conf_ranks, qualifiers,
                            [pots |-> tx.pots, pot0 |-> <<>>, pot1 |-> <<>>, pot2 |-> <<>>])
       IN /\ tx' = [tx EXCEPT !.pots = acc.pots]
          /\ pot0' = acc.pot0 /\ pot1' = acc.pot1 /\ pot2' = acc.pot2
    /\ pcD' = "assigned"
    /\ UNCHANGED <<store, dbD, args, qualifiers, conf_ranks, rng, conf_of, pairs, runs>>

\* the bye check with the comparison dropped
ByeCheckOff(p0) == TRUE

\* len(pot0) != 8 is fatal
ByeOk(p0) == Len(p0) = Byes

DrawByeCheck ==
    /\ UNCHANGED notD
    /\ pcD = "assigned"
    /\ IF ByeOk(pot0)
       THEN /\ pcD' = IF args.prog = "draw2" THEN "nit" ELSE "promote"
            /\ UNCHANGED <<tx, dbD, runs>>
       ELSE Abort
    /\ UNCHANGED <<store, args, qualifiers, conf_ranks, pot0, pot1, pot2, rng, conf_of, pairs>>

DrawNit ==
    /\ UNCHANGED notD
    /\ pcD = "nit"
    /\ LET nit_team_id == IF args.nit_team # NoName
                          THEN resolve_team_id_by_name(store, args.nit_team) ELSE NoTeam
           r == apply_nit_policy_overrides(tx.pots, conf_ranks, args.nit_conference,
                                           nit_team_id, pot1, pot2)
       IN /\ tx' = [tx EXCEPT !.pots = r.pots]
          /\ pot1' = r.pot1
          /\ pot2' = r.pot2
    /\ pcD' = "promote"
    /\ UNCHANGED <<store, dbD, args, qualifiers, conf_ranks, pot0, rng, conf_of, pairs, runs>>

\* one pass of the first while loop of rebalance_pots_to_8_8
RebalancePromote ==
    /\ UNCHANGED notD
    /\ pcD = "promote"
    /\ PromoteCond(pot1, pot2)
    /\ LET tid == promote_tid(store, tx.pots, pot2)
       IN /\ pot2' = RemoveFirst(tid, pot2)
          /\ pot1' = Append(pot1, tid)
          /\ tx' = [tx EXCEPT !.pots = SetPot(tx.pots, tid, 1)]
    /\ UNCHANGED <<pcD, store, dbD, args, qualifiers, conf_ranks, pot0, rng, conf_of, pairs, runs>>

\* one pass of the second while loop
RebalanceDemote ==
    /\ UNCHANGED notD
    /\ \/ pcD = "promote" /\ ~PromoteCond(pot1, pot2)
       \/ pcD = "demote"
    /\ DemoteCond(pot1, pot2)
    /\ LET tid == demote_tid(store, tx.pots, pot1)
       IN /\ pot1' = RemoveFirst(tid, pot1)
          /\ pot2' = Append(pot2, tid)
          /\ tx' = [tx EXCEPT !.pots = SetPot(tx.pots, tid, 2)]
    /\ pcD' = "demote"
    /\ UNCHANGED <<store, dbD, args, qualifiers, conf_ranks, pot0, rng, conf_of, pairs, runs>>

\* len(pot1) == 8 and len(pot2) == 8
PotsBalanced(p1, p2) == Len(p1) = 8 /\ Len(p2) = 8

\* the check after the rebalance; year 2 then writes the field and the draw row
DrawCheckPots ==
    /\ UNCHANGED notD
    /\ \/ pcD = "promote" /\ ~PromoteCond(pot1, pot2)
       \/ pcD = "demote"
    /\ ~DemoteCond(pot1, pot2)
    /\ IF PotsBalanced(pot1, pot2)
       THEN /\ pcD' = "shuffle"
            /\ tx' = IF args.prog = "draw2"
                     THEN [tx EXCEPT !.field = tx.pots,
                                     !.draws = <<[draw_seed |-> args.seed]>>]
                     ELSE tx
            /\ UNCHANGED <<dbD, runs>>
       ELSE Abort
    /\ UNCHANGED <<store, args, qualifiers, conf_ranks, pot0, pot1, pot2, rng, conf_of, pairs>>

DrawShuffle ==
    /\ UNCHANGED notD
    /\ pcD = "shuffle"
    /\ LET s0 == shuffle(pot0, rng)
           s1 == shuffle(pot1, s0.rng)
           s2 == shuffle(pot2, s1.rng)
       IN /\ pot0' = s0.list /\ pot1' = s1.list /\ pot2' = s2.list
          /\ rng' = s2.rng
    /\ pcD' = "slots"
    /\ UNCHANGED <<store, dbD, tx, args, qualifiers, conf_ranks, conf_of, pairs, runs>>

DrawSlots ==
    /\ UNCHANGED notD
    /\ pcD = "slots"
    /\ IF args.prog = "draw1"
       THEN Commit([tx EXCEPT !.bracket_year1 =
                        MakeBracket(tx.bracket_year1, pot0, pot1, pot2, args.seed)])
       ELSE Commit([tx EXCEPT !.bracket =
                        MakeBracket(tx.bracket, pot0, pot1, pot2, args.seed)])
    /\ UNCHANGED <<store, args, qualifiers, conf_ranks, pot0, pot1, pot2, rng, conf_of, pairs>>


\* --- build_round_of_24_year2.main -----------------------------------------
Pot1Slots == 9..16
Pot2Slots == 17..24

SlotPotIs(bracket, s, pot) == s \in DOMAIN bracket /\ bracket[s].pot = pot

\* load the bracket and the field; any failed check is fatal
PairStart ==
    /\ UNCHANGED notD
    /\ pcD \in Rest
    /\ Len(runs) < MaxRuns
    /\ args' = PairArgs
    /\ qualifiers' = <<>> /\ conf_ranks' = <<>> /\ pot0' = <<>> /\ pairs' = PairsNone
    /\ IF /\ Cardinality(DOMAIN tx.bracket) = BracketSlots
          /\ \A s \in Pot1Slots : SlotPotIs(tx.bracket, s, 1)
          /\ \A s \in Pot2Slots : SlotPotIs(tx.bracket, s, 2)
          /\ Cardinality(DOMAIN tx.field) = BracketSlots
       THEN /\ pcD' = "pair_loaded"
            /\ pot1' = [i \in 1..8 |-> tx.bracket[8 + i].team_id]
            /\ pot2' = [i \in 1..8 |-> tx.bracket[16 + i].team_id]
            /\ conf_of' = load_team_conferences(tx.field)
            /\ UNCHANGED <<tx, runs>>
       ELSE /\ pcD' = "aborted"
            /\ pot1' = <<>> /\ pot2' = <<>> /\ conf_of' = <<>>
            /\ tx' = dbD
            /\ runs' = Append(runs, [args |-> PairArgs, outcome |-> "aborted", db |-> dbD])
    /\ UNCHANGED <<store, dbD, rng>>

\* pairs = backtrack_pairings(pot1, pot2, conf_of, preferred=pot2[:]);
\* a team without a field row makes conf_of[...] raise KeyError
PairSearch ==
    /\ UNCHANGED notD
    /\ pcD = "pair_loaded"
    /\ IF (SeqRange(pot1) \cup SeqRange(pot2)) \subseteq DOMAIN conf_of
       THEN /\ pairs' = backtrack_pairings(pot1, pot2, conf_of, pot2)
            /\ pcD' = "paired"
            /\ UNCHANGED <<tx, dbD, runs>>
       ELSE /\ pairs' = pairs
            /\ Abort
    /\ UNCHANGED <<store, args, qualifiers, conf_ranks, pot0, pot1, pot2, rng, conf_of>>

\* `if not pairs` is fatal; otherwise delete the R24 games, insert, commit
PairFinish ==
    /\ UNCHANGED notD
    /\ pcD = "paired"
    /\ IF NotPairs(pairs)
       THEN Abort
       ELSE Commit([tx EXCEPT !.games = GameRows(store, pot1, pot2, pairs.list)])
    /\ UNCHANGED <<store, args, qualifiers, conf_ranks, pot0, pot1, pot2, rng, conf_of, pairs>>

\* the rows an earlier draw and pairing of the key left, made from a field of
\* other teams
OldTables ==
    LET row == [t \in 201..224 |->
                   [conference |-> ConfNames[((t - 201) % 12) + 1], conf_rank |-> 1,
                    conf_coe_rank |-> ((t - 201) % 12) + 1, pot |-> (t - 201) \div 8,
                    bid_type |-> "at_large"]]
        slots == [s \in 1..24 |-> [team_id |-> 200 + s, pot |-> (s - 1) \div 8, draw_seed |-> 1]]
    IN  [pots |-> row, field |-> row, bracket |-> slots, bracket_year1 |-> slots,
         draws |-> <<[draw_seed |-> 1]>>,
         games |-> [i \in 1..8 |->
                      [home_team_id |-> 208 + i, away_team_id |-> 216 + i,
                       home_slot |-> 8 + i, away_slot |-> 16 + i,
                       home_pot |-> 1, away_pot |-> 2]]]

InitDraw ==
    /\ pcD = "ready"
    /\ store \in Stores
    /\ dbD \in {EmptyTables, OldTables}
    /\ tx = dbD
    /\ args = PairArgs
    /\ qualifiers = <<>> /\ conf_ranks = <<>>
    /\ pot0 = <<>> /\ pot1 = <<>> /\ pot2 = <<>>
    /\ rng = 0 /\ conf_of = <<>> /\ pairs = PairsNone
    /\ runs = <<>>

NextDraw ==
    \/ DrawStart \/ DrawAssign \/ DrawByeCheck \/ DrawNit
    \/ RebalancePromote \/ RebalanceDemote \/ DrawCheckPots
    \/ DrawShuffle \/ DrawSlots
    \/ PairStart \/ PairSearch \/ PairFinish


\* --- the pairing program from the point where its inputs are loaded, on
\* --- every small field ----------------------------------------------------
MaxPot == 4

\* R24 rows of an earlier run
OldGames ==
    <<[home_team_id |-> 98, away_team_id |-> 99, home_slot |-> 9, away_slot |-> 17,
       home_pot |-> 1, away_pot |-> 2]>>

PairStore(n) ==
    LET ids == (1..n) \cup {10 + i : i \in 1..n}
    IN  [qualifier_rows |-> {},
         conf_rows |-> <<>>,
         standings |-> <<>>,
         team_coe |-> [t \in {u \in ids : u % 3 # 0} |-> <<(7 * t) % 5, 1 - (t \div 10)>>],
         teams |-> [t \in {u \in ids : u # n} |-> TeamName(t)]]

InitPair ==
    \E n \in 1..MaxPot :
        /\ pcD = "pair_loaded"
        /\ store = PairStore(n)
        /\ dbD = [EmptyTables EXCEPT !.games = OldGames]
        /\ tx = dbD
        /\ args = PairArgs
        /\ qualifiers = <<>> /\ conf_ranks = <<>>
        /\ pot0 = <<>>
        /\ pot1 = [i \in 1..n |-> i]
        /\ pot2 = [i \in 1..n |-> 10 + i]
        /\ rng = 0
        /\ \E c1, c2 \in [1..n -> {"C01", "C02", "C03"}] :
              conf_of = [t \in (1..n) \cup {10 + i : i \in 1..n} |->
                            IF t <= n THEN c1[t] ELSE c2[t - 10]]
        /\ pairs = PairsNone
        /\ runs = <<>>

NextPair == PairSearch \/ PairFinish

\* ------------------------------------------------------------------------
\* Claims about the draw and the pairing
\* ------------------------------------------------------------------------
\* the qualifiers the rule table puts in pot 0
RuleTableByes ==
    {i \in DOMAIN qualifiers :
        LET q == qualifiers[i]
            found == get_conf_rank(store, q.conference, q.team_id)
        IN assign_pot(args.prog, RankGet(conf_ranks, q.conference),
                      IF found = NoRank THEN q.conf_rank ELSE found) = 0}

IsDraw == args.prog \in {"draw1", "draw2"}

\* C6: a draw is at the shuffle or slotting step, or has committed, only if
\* the rule table put exactly 8 qualifiers in pot 0 and pot 1 and pot 2 hold
\* exactly 8 teams each; every other run has ended with the fatal error.
C6_ShuffleOnlyWithFullPots ==
    (IsDraw /\ pcD \in {"shuffle", "slots", "committed"}) =>
        /\ Cardinality(RuleTableByes) = 8
        /\ Len(pot0) = 8 /\ Len(pot1) = 8 /\ Len(pot2) = 8

\* a draw that needed a promotion has committed
C6_Witness ==
    /\ IsDraw /\ pcD = "committed"
    /\ \E t \in DOMAIN dbD.pots :
          dbD.pots[t].pot = 1 /\
          assign_pot(args.prog, dbD.pots[t].conf_coe_rank, dbD.pots[t].conf_rank) = 2

\* a perfect matching of pot 1 with pot 2 without a same-conference pair exists
ExistsMatching ==
    \E f \in Permutations(DOMAIN pot2) :
        \A i \in DOMAIN pot1 : conf_of[pot1[i]] # conf_of[pot2[f[i]]]

\* C7: a list returned by backtrack_pairings has one pair per pot-1 team in
\* pot-1 order, uses every pot-2 team exactly once and has no pair of two
\* teams of the same conference.
C7_PairsArePerfectMatching ==
    (pcD = "paired" /\ ~pairs.none) =>
        /\ Len(pairs.list) = Len(pot1)
        /\ \A i \in DOMAIN pairs.list : pairs.list[i][1] = pot1[i]
        /\ {pairs.list[i][2] : i \in DOMAIN pairs.list} = SeqRange(pot2)
        /\ \A i, j \in DOMAIN pairs.list :
              pairs.list[i][2] = pairs.list[j][2] => i = j
        /\ \A i \in DOMAIN pairs.list :
              conf_of[pairs.list[i][1]] # conf_of[pairs.list[i][2]]

\* a matching that is not the slot-aligned one was returned
C7_Witness ==
    /\ pcD = "paired" /\ ~pairs.none
    /\ \E i \in DOMAIN pairs.list : pairs.list[i][2] # pot2[i]

\* C8: backtrack_pairings returns None exactly when no legal perfect
\* matching exists, and the pairing program then ends with the fatal error
\* and the R24 games of the key as they were; it writes games only for a
\* matching it found.
C8_NoneIffNoMatching ==
    /\ pcD = "paired" => (pairs.none <=> ~ExistsMatching)
    /\ (pcD = "aborted" /\ args.prog = "pair" /\ conf_of # <<>>) =>
          /\ ~ExistsMatching
          /\ dbD.games = OldGames /\ tx.games = OldGames
    /\ (pcD = "committed" /\ args.prog = "pair") =>
          /\ ExistsMatching
          /\ dbD.games = GameRows(store, pot1, pot2, pairs.list)

\* the search failed on a field of at least two teams per pot and the run aborted
C8_Witness ==
    /\ pcD = "aborted" /\ args.prog = "pair" /\ pairs.none
    /\ Len(pot1) >= 2
    /\ dbD.games = OldGames


\* the bracket table the draw of this key writes
KeyBracket(db, prog) == IF prog = "draw1" THEN db.bracket_year1 ELSE db.bracket

\* C9: after a committed draw the bracket has exactly the slots 1..24;
\* slots 1-8 hold pot 0, 9-16 pot 1 and 17-24 pot 2, each in the shuffled
\* order of its list; no team holds two slots and every team of the field
\* holds one.
C9_BracketSlots ==
    (IsDraw /\ pcD = "committed") =>
        LET b == KeyBracket(dbD, args.prog) IN
        /\ DOMAIN b = 1..24
        /\ Len(pot0) = 8 /\ Len(pot1) = 8 /\ Len(pot2) = 8
        /\ \A i \in 1..8 :
              /\ b[i].team_id = pot0[i] /\ b[i].pot = 0
              /\ b[8 + i].team_id = pot1[i] /\ b[8 + i].pot = 1
              /\ b[16 + i].team_id = pot2[i] /\ b[16 + i].pot = 2
        /\ \A s1, s2 \in DOMAIN b : b[s1].team_id = b[s2].team_id => s1 = s2
        /\ \A t \in DOMAIN dbD.pots : \E s \in DOMAIN b : b[s].team_id = t

\* run i is a draw and the run right after it is the pairing program
PairFollows(i) == i + 1 \in DOMAIN runs /\ runs[i + 1].args.prog = "pair"

\* C10: two draws of the same stored data with the same command line end
\* the same way with the same slot assignments, and the pairing runs that
\* follow them leave the same (home, away) games, whatever the order in
\* which the qualifier rows were read.
C10_SameSeedSameResult ==
    \A i, j \in DrawRuns :
        (i < j /\ runs[i].args = runs[j].args) =>
            /\ runs[i].outcome = runs[j].outcome
            /\ KeyBracket(runs[i].db, runs[i].args.prog) = KeyBracket(runs[j].db, runs[j].args.prog)
            /\ (PairFollows(i) /\ PairFollows(j)) =>
                  /\ runs[i + 1].outcome = runs[j + 1].outcome
                  /\ runs[i + 1].db.games = runs[j + 1].db.games

\* ------------------------------------------------------------------------
\* Claims about short standings in select_playoff_qualifiers
\* ------------------------------------------------------------------------
\* main counts the conference at index i of the bid map as missing standings
WarnedFor(i) ==
    /\ ranked[i].bids > 0
    /\ select_qualifiers_for_conference(standings[i], ranked[i].bids) = <<>>
    /\ missing_standings > 0

\* C13: in a committed run, for every conference with b > 0 bids and fewer
\* than b ranked teams in its standings, the qualifiers written are exactly
\* the teams of its standings and the warning counts the conference; with
\* no standings rows nothing is written and the warning counts it.
C13_ShortStandingsEmittedAndWarned ==
    pcB = "committed" =>
        \A i \in DOMAIN ranked :
            (ranked[i].bids > 0 /\ Len(standings[i]) < ranked[i].bids) =>
                /\ {q.team_id : q \in {x \in playoff_qualifiers_by_year :
                                          x.conference = ranked[i].conference}}
                     = {standings[i][p].team_id : p \in DOMAIN standings[i]}
                /\ WarnedFor(i)

\* ------------------------------------------------------------------------
\* Claims about the champion in select_year2_field
\* ------------------------------------------------------------------------
\* C14: once the conference loop is over, for every tiered conference with
\* k >= 1 bids whose recorded champion is an FBS member, the champion is
\* among the selected teams and is first in the conference's slot order.
C14_ChampionSelectedInSlot1 ==
    pcY \in {"indep", "check", "returned"} =>
        \A tier \in DOMAIN tiersY :
            LET conf == tiersY[tier]
                champ_id == load_conference_champions(dbY, conf)
                slots == ConferenceSlots(dbY, conf, tier)
            IN  (/\ conf # IND /\ bids_for_tier(tier) >= 1
                 /\ champ_id # NoTeam /\ champ_id \in load_all_fbs_team_ids(dbY)) =>
                    /\ \E i \in DOMAIN selected : selected[i].team_id = champ_id
                    /\ slots # <<>> /\ slots[1] = champ_id

\* ------------------------------------------------------------------------
\* Rolling aggregation: build_coefficients.write_rolling_5yr and the two
\* compute_rolling programs
\* ------------------------------------------------------------------------
MaxYears == 5           \* seasons 2014 .. 2013 + MaxYears can hold data
ROLLING_YEARS == 5
DefaultWindow == 5      \* --window

Seasons == 2014..(2013 + MaxYears)
RollKeys == {"A", "B"}

\* WITHIN_WINDOW_DECAY_BASE ** age with base 0.92, in units of 10^-8
\* (USE_WITHIN_WINDOW_DECAY is True)
within_window_weight(end_year, year) ==
    LET age == end_year - year IN 92 ^ age * 100 ^ (ROLLING_YEARS - 1 - age)

\* sum(f[x] for x in S)
RECURSIVE SumOver(_, _)
SumOver(S, f) ==
    IF S = {} THEN 0
    ELSE LET x == CHOOSE y \in S : TRUE IN f[x] + SumOver(S \ {x}, f)

\* round(coeff, 6) of a value given in units of 10^-8: millionths
Round6(x) == (x + 50) \div 100

\* the rows of team_coeff_5yr.csv; all_ratings maps (key, year) to a rating
\* and `years` are the seasons that have games
write_rolling_5yr(all_ratings, years) ==
    UNION {
        LET start_year == end_year - (ROLLING_YEARS - 1)
            window_years == {y \in years : start_year <= y /\ y <= end_year}
            teams == {k[1] : k \in {x \in DOMAIN all_ratings : x[2] \in window_years}}
            get(team, y) == IF <<team, y>> \in DOMAIN all_ratings
                            THEN all_ratings[<<team, y>>].total_points ELSE 0
            coeff(team) ==
                SumOver(window_years,
                        [y \in window_years |-> get(team, y) * within_window_weight(end_year, y)])
        IN  IF Cardinality(window_years) < ROLLING_YEARS THEN {}
            ELSE {[end_year |-> end_year, window_start |-> start_year,
                   window_end |-> end_year, key |-> team,
                   coeff_5yr |-> Round6(coeff(team))] : team \in teams}
        : end_year \in years}

\* the INSERT ... SELECT of compute_rolling: one row per key that has a
\* per-season row BETWEEN start_year AND end_year
compute_rolling(tbl, season_year, window) ==
    LET start_year == season_year - (window - 1)
        end_year == season_year
        windowed == {x \in DOMAIN tbl : start_year <= x[2] /\ x[2] <= end_year}
        rowsOf(k) == {x \in windowed : x[1] = k}
        tp(k) == SumOver(rowsOf(k), [x \in windowed |-> tbl[x].total_points])
        gc(k) == SumOver(rowsOf(k), [x \in windowed |-> tbl[x].games_counted])
    IN  {[end_year |-> season_year, window_start |-> start_year,
          window_end |-> end_year, key |-> k,
          total_points_5yr |-> tp(k), games_counted_5yr |-> gc(k),
          points_per_game_5yr |-> IF gc(k) > 0 THEN <<tp(k), gc(k)>> ELSE <<0, 1>>]
         : k \in {x[1] : x \in windowed}}

\* stored per-season rows for any set of (key, season) pairs
ByYearTables ==
    {[x \in D |-> [total_points |-> (x[2] % 3) + (IF x[1] = "A" THEN 1 ELSE 0),
                   games_counted |-> (x[2] + (IF x[1] = "A" THEN 1 ELSE 0)) % 3]]
        : D \in SUBSET (RollKeys \X Seasons)}

RollArgs ==
    {[impl |-> "ratings", year |-> 0, window |-> ROLLING_YEARS]}
    \cup {[impl |-> i, year |-> y, window |-> w] :
            i \in {"conference", "team"}, y \in Seasons, w \in {3, DefaultWindow}}

InitRoll ==
    /\ pcC = "ready"
    /\ roll_args \in RollArgs
    /\ by_year \in ByYearTables
    /\ rolling_rows = {}
    /\ components = <<>> /\ games = <<>> /\ ratings = <<>> /\ iterN = 0

\* build_coefficients.main: write_rolling_5yr(all_ratings, years)
RollRatings ==
    /\ UNCHANGED notC
    /\ pcC = "ready" /\ roll_args.impl = "ratings"
    /\ rolling_rows' = write_rolling_5yr(by_year, {x[2] : x \in DOMAIN by_year})
    /\ pcC' = "done"
    /\ UNCHANGED <<roll_args, by_year, components, games, ratings, iterN>>

\* compute_*_coe_rolling_5yr.main: DELETE the season's rows, INSERT, commit
RollCompute ==
    /\ UNCHANGED notC
    /\ pcC = "ready" /\ roll_args.impl \in {"conference", "team"}
    /\ rolling_rows' = {r \in rolling_rows : r.end_year # roll_args.year}
                        \cup compute_rolling(by_year, roll_args.year, roll_args.window)
    /\ pcC' = "done"
    /\ UNCHANGED <<roll_args, by_year, components, games, ratings, iterN>>

NextRoll == RollRatings \/ RollCompute

\* the seasons that have any per-season row
DataYears == {x[2] : x \in DOMAIN by_year}

\* C11: every rolling row written covers `window` seasons that all have
\* data; no figure is emitted for an end year whose window is partly empty.
C11_NoPartialWindow ==
    \A r \in rolling_rows :
        /\ r.window_end - r.window_start + 1 = roll_args.window
        /\ \A y \in r.window_start..r.window_end : y \in DataYears

\* ------------------------------------------------------------------------
\* Season ratings: build_coefficients.per_season_iterative_ratings
\* Ratings are exact fractions num[t] / den; floating-point rounding is not
\* modelled.
\* ------------------------------------------------------------------------
MaxGames == 2           \* games of the season
MaxIterations == 3      \* the `iterations` argument (ITERATIONS is 15)
NoScore == -1           \* a NULL score

\* PHASE_WEIGHTS.get((phase or "regular").strip().lower(), 1.0)
phase_weight(phase) ==
    CASE phase = "bowl" -> 2
      [] phase = "cfp" -> 3
      [] OTHER -> 1

RECURSIVE Gcd(_, _)
Gcd(a, b) == IF b = 0 THEN a ELSE Gcd(b, a % b)

\* the same fractions with the smallest denominator
Reduced(r) ==
    LET RECURSIVE G(_, _)
        G(S, acc) == IF S = {} THEN acc
                     ELSE LET t == CHOOSE u \in S : TRUE
                          IN G(S \ {t}, Gcd(acc, r.num[t]))
        g == G(DOMAIN r.num, r.den)
    IN  [num |-> [t \in DOMAIN r.num |-> r.num[t] \div g], den |-> r.den \div g]

\* teams.add(home); teams.add(away) for every game, decided or not
SeasonTeams(gs) == {gs[i].home_team : i \in DOMAIN gs} \cup {gs[i].away_team : i \in DOMAIN gs}

\* the test without `if hs == ays: continue`
DecidedOrTied(g) == g.home_score # NoScore /\ g.away_score # NoScore

\* the games the inner loop does not `continue` past
Decided(g) == g.home_score # NoScore /\ g.away_score # NoScore /\ g.home_score # g.away_score

\* the accumulators fed with the team's own rating instead of the opponent's
new_scores_own_rating(gs, r, t) ==
    SumOver(DOMAIN gs,
        [i \in DOMAIN gs |->
            LET g == gs[i]
                home_won == g.home_score > g.away_score
            IN  IF ~Decided(g) \/ t \notin {g.home_team, g.away_team} THEN 0
                ELSE (IF home_won <=> g.home_team = t THEN 20 ELSE 3)
                     * phase_weight(g.game_phase) * r.num[t]])

\* new_scores[t] after the loop over the games, in units of 1 / (20 * r.den):
\* the winner gets the loser's rating times w, the loser the winner's rating
\* times w times LOSS_PENALTY (0.15 = 3/20)
new_scores(gs, r, t) ==
    SumOver(DOMAIN gs,
        [i \in DOMAIN gs |->
            LET g == gs[i]
                w == phase_weight(g.game_phase)
                home_won == g.home_score > g.away_score
            IN  IF ~Decided(g) THEN 0
                ELSE IF g.home_team = t
                     THEN (IF home_won THEN 20 ELSE 3) * w * r.num[g.away_team]
                ELSE IF g.away_team = t
                     THEN (IF home_won THEN 3 ELSE 20) * w * r.num[g.home_team]
                ELSE 0])

\* scale taken from the teams that scored instead of all teams of the season
ScaleCountScorers(gs, teams) ==
    Cardinality({t \in teams : \E i \in DOMAIN gs :
                    Decided(gs[i]) /\ t \in {gs[i].home_team, gs[i].away_team}})

\* the numerator of scale = len(teams) / total
ScaleCount(gs, teams) == Cardinality(teams)

\* one pass of `for _ in range(iterations)` that does not break
NextRatings(gs, r) ==
    LET teams == SeasonTeams(gs)
        ns == [t \in teams |-> new_scores(gs, r, t)]
        total_ == SumOver(teams, ns)
    IN  Reduced([num |-> [t \in teams |-> ns[t] * ScaleCount(gs, teams)], den |-> total_])

SeasonGames ==
    LET Game == {[home_team |-> x[1], away_team |-> x[2], home_score |-> s[1],
                  away_score |-> s[2], game_phase |-> p] :
                    x \in {<<"A", "B">>, <<"B", "C">>, <<"C", "A">>},
                    s \in {<<1, 0>>, <<0, 1>>, <<1, 1>>, <<NoScore, 0>>},
                    p \in {"regular", "bowl", "cfp"}}
    IN  UNION {[1..n -> Game] : n \in 0..MaxGames}

InitRate ==
    /\ games \in SeasonGames
    /\ pcC = IF games = <<>> THEN "returned" ELSE "rate"
    /\ ratings = IF games = <<>> THEN <<>>
                 ELSE [num |-> [t \in SeasonTeams(games) |-> 1], den |-> 1]
    /\ iterN = 0
    /\ roll_args = <<>> /\ by_year = <<>> /\ rolling_rows = {} /\ components = <<>>

\* one pass of the loop: new scores, then normalise, or break when total <= 0
RateIterate ==
    /\ UNCHANGED notC
    /\ pcC = "rate" /\ iterN < MaxIterations
    /\ LET teams == SeasonTeams(games)
           total_ == SumOver(teams, [t \in teams |-> new_scores(games, ratings, t)])
       IN  IF total_ <= 0
           THEN pcC' = "returned" /\ UNCHANGED <<ratings, iterN>>
           ELSE /\ ratings' = NextRatings(games, ratings)
                /\ iterN' = iterN + 1
                /\ pcC' = "rate"
    /\ UNCHANGED <<roll_args, by_year, rolling_rows, components, games>>

\* return ratings
RateReturn ==
    /\ UNCHANGED notC
    /\ pcC = "rate" /\ iterN = MaxIterations
    /\ pcC' = "returned"
    /\ UNCHANGED <<roll_args, by_year, rolling_rows, components, games, ratings, iterN>>

NextRate == RateIterate \/ RateReturn

\* C12: in a season with a decided game, after every pass and on return
\* the ratings of all teams named in any game of the season sum to the
\* number of those teams.
C12_RatingsSumToTeamCount ==
    (pcC \in {"rate", "returned"} /\ \E i \in DOMAIN games : Decided(games[i])) =>
        /\ DOMAIN ratings.num = SeasonTeams(games)
        /\ ratings.den > 0
        /\ SumOver(SeasonTeams(games), ratings.num) = Cardinality(SeasonTeams(games)) * ratings.den

\* returned after the passes with a team whose only game was a tie rated zero
C12_Witness ==
    /\ pcC = "returned" /\ iterN = MaxIterations
    /\ \E i \in DOMAIN games : Decided(games[i])
    /\ \E t \in SeasonTeams(games) : ratings.num[t] = 0
    /\ \E t \in SeasonTeams(games) : ratings.num[t] > ratings.den

\* ------------------------------------------------------------------------
\* C15: the home team of a pairing
\* ------------------------------------------------------------------------
\* the rolling figures of a team as stored, (0, 0) without a rolling row
RollingOf(st, t) == IF t \in DOMAIN st.team_coe THEN st.team_coe[t] ELSE <<0, 0>>

\* the team the rule names as home: more total points, then more points per
\* game, then the name that sorts first
HomeByRule(st, a, b) ==
    LET ra == RollingOf(st, a)
        rb == RollingOf(st, b)
    IN  IF ra[1] > rb[1] THEN a
        ELSE IF rb[1] > ra[1] THEN b
        ELSE IF ra[2] > rb[2] THEN a
        ELSE IF rb[2] > ra[2] THEN b
        ELSE IF StrLess(st.teams[a], st.teams[b]) THEN a ELSE b

Named(st) == {t \in DOMAIN st.teams : st.teams[t] # <<>>}

\* C15: for two teams with distinct names choose_home_away returns as home the
\* team with more rolling total points, on a tie the one with more points per
\* game, on a further tie the one whose name sorts first; a team without a
\* rolling row counts as (0, 0); the result is the same for either argument
\* order, and the home team of every written game is that team whatever pots
\* and slots the two teams hold.
C15_HomeIsStrongerTeam ==
    /\ \A a, b \in Named(store) :
          store.teams[a] # store.teams[b] =>
              LET h == HomeByRule(store, a, b)
              IN  /\ choose_home_away(store, a, b) = <<h, IF h = a THEN b ELSE a>>
                  /\ choose_home_away(store, b, a) = choose_home_away(store, a, b)
    /\ (pcD = "committed" /\ ~NotPairs(pairs)) =>
          \A i \in DOMAIN dbD.games :
              LET g == dbD.games[i]
              IN  ({g.home_team_id, g.away_team_id} \subseteq Named(store)) =>
                      g.home_team_id = HomeByRule(store, g.home_team_id, g.away_team_id)

\* a committed pairing with a game whose teams tie on total points, the home
\* team having more points per game and the later name, a game whose home team
\* comes from pot 2, and a game between two teams without rolling rows
C15_Witness ==
    /\ pcD = "committed" /\ ~NotPairs(pairs)
    /\ \E i \in DOMAIN dbD.games :
          LET g == dbD.games[i]
              rh == RollingOf(store, g.home_team_id)
              ra == RollingOf(store, g.away_team_id)
          IN  /\ {g.home_team_id, g.away_team_id} \subseteq Named(store)
              /\ rh[1] = ra[1] /\ rh[2] > ra[2]
              /\ StrLess(store.teams[g.away_team_id], store.teams[g.home_team_id])
    /\ \E i \in DOMAIN dbD.games : dbD.games[i].home_pot = 2
    /\ \E i \in DOMAIN dbD.games :
          LET g == dbD.games[i]
          IN  /\ {g.home_team_id, g.away_team_id} \subseteq Named(store)
              /\ g.home_team_id \notin DOMAIN store.team_coe
              /\ g.away_team_id \notin DOMAIN store.team_coe

\* ------------------------------------------------------------------------
\* C16: running the draw and the pairing twice
\* ------------------------------------------------------------------------
\* runs i, i+1, i+2 are a draw, a pairing and the same draw again
DrawPairDraw(i) ==
    /\ i + 2 \in DOMAIN runs
    /\ runs[i].args.prog # "pair" /\ runs[i + 1].args.prog = "pair"
    /\ runs[i + 2].args = runs[i].args

\* the rows the draw writes: pots, field, brackets and draw metadata
DrawRows(db) == [db EXCEPT !.games = <<>>]

C17_AbortLeavesCommittedRows ==
    [][(args'.prog # "pair" /\ pcD' # "committed") =>
          /\ dbD' = dbD
          /\ (pcD' = "aborted" /\ Len(runs') > Len(runs)) => runs'[Len(runs')].db = dbD]_vars

\* a draw has aborted on the pot sizes, after it had deleted the rows of an
\* earlier draw and inserted its own pot rows, and the earlier rows are there
C17_Witness ==
    /\ IsDraw /\ pcD = "aborted"
    /\ Len(pot0) = Byes /\ ~PotsBalanced(pot1, pot2)
    /\ dbD = OldTables /\ tx = OldTables

\* a draw has aborted on the bye count with the earlier rows in place
C17_ByeAbort ==
    /\ IsDraw /\ pcD = "aborted"
    /\ pot0 # <<>> /\ Len(pot0) # Byes
    /\ dbD = OldTables

\* ------------------------------------------------------------------------
\* Conference totals: compute_conference_coe_v0.rollup_totals
\* ------------------------------------------------------------------------
\* conference_coe_components rows are keyed (season, conference, component);
\* points are counted in half points (a post-season game is worth 1.5), and a
\* points-per-game figure is the fraction <<half points, games>>
RollupYear == 2025

\* the rollup with every component's games in the denominator
rollup_totals_all_games(comps, season_year) ==
    LET sel == {k \in DOMAIN comps : k[1] = season_year}
        ofConf(c) == {k \in sel : k[2] = c}
        total_points(c) == SumOver(ofConf(c), [k \in sel |-> comps[k].points])
        games_counted(c) == SumOver(ofConf(c), [k \in sel |-> comps[k].games_counted])
    IN  [x \in {<<k[2], season_year>> : k \in sel} |->
            [total_points |-> total_points(x[1]),
             games_counted |-> games_counted(x[1]),
             points_per_game |-> IF games_counted(x[1]) > 0
                                 THEN <<total_points(x[1]), games_counted(x[1])>>
                                 ELSE <<0, 1>>]]

\* the rows the rollup query returns for season_year, keyed as
\* conference_coefficient_by_year is: (conference, season)
rollup_totals(comps, season_year) ==
    LET sel == {k \in DOMAIN comps : k[1] = season_year}
        ofConf(c) == {k \in sel : k[2] = c}
        total_points(c) == SumOver(ofConf(c), [k \in sel |-> comps[k].points])
        games_counted(c) ==
            SumOver(ofConf(c), [k \in sel |-> IF k[3] = "nonconf_base"
                                              THEN comps[k].games_counted ELSE 0])
            + SumOver(ofConf(c), [k \in sel |-> IF k[3] = "playoff_games"
                                                THEN comps[k].games_counted ELSE 0])
    IN  [x \in {<<k[2], season_year>> : k \in sel} |->
            [total_points |-> total_points(x[1]),
             games_counted |-> games_counted(x[1]),
             points_per_game |-> IF games_counted(x[1]) > 0
                                 THEN <<total_points(x[1]), games_counted(x[1])>>
                                 ELSE <<0, 1>>]]

\* component tables: conference A with any of its four components in the
\* season, B with one component or none, and rows of the season before
ComponentTables ==
    LET opt == [nonconf_base |-> {<<>>, <<6, 2>>, <<0, 1>>},
                conf_base |-> {<<>>, <<4, 3>>},
                playoff_participation |-> {<<>>, <<12, 1>>, <<24, 2>>},
                playoff_games |-> {<<>>, <<3, 1>>, <<9, 3>>}]
        row(v) == [points |-> v[1], games_counted |-> v[2]]
    IN  {LET all == [k \in {<<RollupYear, "A", n>> : n \in DOMAIN opt} |-> a[k[3]]]
                    @@ (<<RollupYear, "B", b[1]>> :> b[2])
                    @@ (<<RollupYear - 1, "A", "nonconf_base">> :> p)
         IN  [k \in {x \in DOMAIN all : all[x] # <<>>} |-> row(all[k])]
         : a \in {f \in [DOMAIN opt -> UNION {opt[n] : n \in DOMAIN opt}] :
                     \A n \in DOMAIN opt : f[n] \in opt[n]},
           b \in {<<"nonconf_base", <<>> >>, <<"nonconf_base", <<2, 1>> >>,
                  <<"playoff_participation", <<12, 1>> >>},
           p \in {<<>>, <<6, 3>>}}

\* rows an earlier run left in conference_coefficient_by_year
OldTotals ==
    [x \in {<<"A", RollupYear>>, <<"C", RollupYear>>, <<"A", RollupYear - 1>>} |->
        [total_points |-> 2, games_counted |-> 1, points_per_game |-> <<2, 1>>]]

InitRollup ==
    /\ pcC = "ready"
    /\ roll_args = [impl |-> "rollup", year |-> RollupYear, window |-> 0]
    /\ components \in ComponentTables
    /\ by_year \in {<<>>, OldTotals}
    /\ rolling_rows = {} /\ games = <<>> /\ ratings = <<>> /\ iterN = 0

\* rollup_totals: DELETE the season's rows, INSERT the query's rows; commit
Rollup ==
    /\ UNCHANGED notC
    /\ pcC = "ready" /\ roll_args.impl = "rollup"
    /\ LET new == rollup_totals(components, roll_args.year)
           kept == {x \in DOMAIN by_year : x[2] # roll_args.year}
       IN  by_year' = [x \in kept \cup DOMAIN new |->
                          IF x \in DOMAIN new THEN new[x] ELSE by_year[x]]
    /\ pcC' = "done"
    /\ UNCHANGED <<roll_args, rolling_rows, components, games, ratings, iterN>>

NextRollup == Rollup

\* the stored value of one component of a conference in the season, 0 if absent
CompField(c, n, fld) ==
    IF <<RollupYear, c, n>> \in DOMAIN components
    THEN components[<<RollupYear, c, n>>][fld] ELSE 0

\* C18: after the rollup each conference with component rows in the season
\* has one total row: total_points is the sum of the points of all its
\* components, games_counted the non-conference games plus the post-season
\* games (participation counts left out), points_per_game their quotient, or
\* 0 when games_counted is 0; conferences without component rows have none.
C18_RollupTotals ==
    pcC = "done" =>
        /\ {x[1] : x \in {y \in DOMAIN by_year : y[2] = RollupYear}}
             = {k[2] : k \in {j \in DOMAIN components : j[1] = RollupYear}}
        /\ \A x \in DOMAIN by_year :
              x[2] = RollupYear =>
                  LET c == x[1]
                      tp == CompField(c, "nonconf_base", "points")
                            + CompField(c, "conf_base", "points")
                            + CompField(c, "playoff_participation", "points")
                            + CompField(c, "playoff_games", "points")
                      gc == CompField(c, "nonconf_base", "games_counted")
                            + CompField(c, "playoff_games", "games_counted")
                  IN  /\ by_year[x].total_points = tp
                      /\ by_year[x].games_counted = gc
                      /\ by_year[x].points_per_game[1] * (IF gc > 0 THEN gc ELSE 1)
                           = (IF gc > 0 THEN tp ELSE 0) * by_year[x].points_per_game[2]

\* a rollup over a conference with all four components and a conference with
\* points and no counted game, replacing the rows of an earlier run
C18_Witness ==
    /\ pcC = "done" /\ roll_args.impl = "rollup"
    /\ \A n \in {"nonconf_base", "conf_base", "playoff_participation", "playoff_games"} :
          CompField("A", n, "games_counted") > 0
    /\ <<"B", RollupYear>> \in DOMAIN by_year
    /\ by_year[<<"B", RollupYear>>].total_points > 0
    /\ by_year[<<"B", RollupYear>>].games_counted = 0
    /\ <<"A", RollupYear - 1>> \in DOMAIN by_year
    /\ <<"C", RollupYear>> \notin DOMAIN by_year

\* ------------------------------------------------------------------------
\* C19: the games and the bracket
\* ------------------------------------------------------------------------
\* the game row names the teams and pots the bracket holds at its two slots
GameAgrees(db, g) ==
    /\ g.home_slot \in DOMAIN db.bracket /\ g.away_slot \in DOMAIN db.bracket
    /\ db.bracket[g.home_slot].team_id = g.home_team_id
    /\ db.bracket[g.away_slot].team_id = g.away_team_id
    /\ db.bracket[g.home_slot].pot = g.home_pot
    /\ db.bracket[g.away_slot].pot = g.away_pot

\* C19: between runs, whatever draws and pairings of the key have committed,
\* every stored Round-of-24 game agrees with the stored bracket: no game is
\* left from a draw that a later draw has replaced.
C19_GamesAgreeWithBracket ==
    pcD \in Rest =>
        \A i \in DOMAIN dbD.games : GameAgrees(dbD, dbD.games[i])

\* ------------------------------------------------------------------------
\* C20: the team a promotion moves
\* ------------------------------------------------------------------------
\* t comes before u in the stated order: more total points, then more points
\* per game, then the lower conference-strength rank, then the lower
\* in-conference finish, then the name that sorts first
BeforeByRule(st, pots, t, u) ==
    LET kt == team_strength_key(st, t)
        ku == team_strength_key(st, u)
        mt == get_pot_meta(pots, t)
        mu == get_pot_meta(pots, u)
    IN  IF kt[1] # ku[1] THEN kt[1] > ku[1]
        ELSE IF kt[2] # ku[2] THEN kt[2] > ku[2]
        ELSE IF mt[1] # mu[1] THEN mt[1] < mu[1]
        ELSE IF mt[2] # mu[2] THEN mt[2] < mu[2]
        ELSE StrLess(get_team_name(st, t), get_team_name(st, u))

\* C20: while pot 1 has fewer than 8 teams and pot 2 more than 8, each
\* rebalancing step moves into pot 1 a pot-2 team that no other pot-2 team
\* comes before in the stated order.
C20_PromotesFirstByRule ==
    [][(pcD = "promote" /\ PromoteCond(pot1, pot2) /\ pot1' # pot1) =>
          \A u \in SeqRange(pot2) :
              ~BeforeByRule(store, tx.pots, u, pot1'[Len(pot1')])]_vars

\* ------------------------------------------------------------------------
\* C21: the team a demotion moves
\* ------------------------------------------------------------------------
\* t is weaker than u on the figures alone: fewer total points, then fewer
\* points per game, then the higher conference-strength rank, then the higher
\* in-conference finish
WeakerOnFigures(st, pots, t, u) ==
    LET kt == team_strength_key(st, t)
        ku == team_strength_key(st, u)
        mt == get_pot_meta(pots, t)
        mu == get_pot_meta(pots, u)
    IN  IF kt[1] # ku[1] THEN kt[1] < ku[1]
        ELSE IF kt[2] # ku[2] THEN kt[2] < ku[2]
        ELSE IF mt[1] # mu[1] THEN mt[1] > mu[1]
        ELSE mt[2] > mu[2]

\* C21: while pot 1 has more than 8 teams and pot 2 fewer than 8, each
\* rebalancing step moves into pot 2 the pot-1 team that is last in the order
\* of the promotion: every other pot-1 team comes before it.
C21_DemotesLastByRule ==
    [][(pcD \in {"promote", "demote"} /\ DemoteCond(pot1, pot2) /\ pot2' # pot2) =>
          \A u \in SeqRange(pot1) :
              ~BeforeByRule(store, tx.pots, pot2'[Len(pot2')], u)]_vars

\* the same on the figures alone, the name left out: no pot-1 team is weaker
\* than the demoted one
C21_DemotesWeakestOnFigures ==
    [][(pcD \in {"promote", "demote"} /\ DemoteCond(pot1, pot2) /\ pot2' # pot2) =>
          \A u \in SeqRange(pot1) :
              ~WeakerOnFigures(store, tx.pots, u, pot2'[Len(pot2')])]_vars

\* ------------------------------------------------------------------------
\* C22: the pot of the NIT team
\* ------------------------------------------------------------------------
\* the team --nit-team names, 0 when the argument is absent or unknown
NitTeamId ==
    IF args.nit_team # NoName THEN resolve_team_id_by_name(store, args.nit_team) ELSE NoTeam

\* the pot the policy gives the NIT team: 1 for a conference ranked 1-6
NitPot(pots) ==
    IF RankGet(conf_ranks, pots[NitTeamId].conference) <= 6 THEN 1 ELSE 2

\* C22: in a committed year-2 draw run with a NIT team of the field, the team
\* is stored with pot 1 and listed in pot 1 when its conference is ranked 1-6,
\* and stored with pot 2 and listed in pot 2 otherwise; the rebalancing that
\* follows the hook has not changed that.
C22_NitTeamPot ==
    (args.prog = "draw2" /\ pcD = "committed" /\ NitTeamId \in DOMAIN dbD.pots) =>
        /\ dbD.pots[NitTeamId].pot = NitPot(dbD.pots)
        /\ InSeq(NitTeamId, IF NitPot(dbD.pots) = 1 THEN pot1 ELSE pot2)

\* ------------------------------------------------------------------------
\* C23: the pot lists and the stored pots
\* ------------------------------------------------------------------------
\* the numbers of the pot lists that hold team t
ListsOf(t) ==
    {k \in {0, 1, 2} : InSeq(t, IF k = 0 THEN pot0 ELSE IF k = 1 THEN pot1 ELSE pot2)}

\* C23: at the slotting step of a year-2 draw, and when it has committed,
\* every team of the pot table is in exactly one of the lists pot0, pot1 and
\* pot2, and that list is the pot stored for the team.
C23_OneListPerTeam ==
    (args.prog = "draw2" /\ pcD \in {"slots", "committed"}) =>
        \A t \in DOMAIN tx.pots : ListsOf(t) = {tx.pots[t].pot}

\* ------------------------------------------------------------------------
\* Claims about the teams select_year2_field takes for a conference
\* ------------------------------------------------------------------------
\* C24: once the conference loop is over, every team selected for a tiered
\* conference is ranked in that conference's standings or is its recorded
\* champion; a conference with fewer ranked teams than bids contributes
\* fewer teams, never a team from outside its standings.
C24_SelectedFromStandings ==
    pcY \in {"indep", "check", "returned", "raised"} /\ tiersY # <<>> =>
        \A tier \in DOMAIN tiersY :
            LET conf == tiersY[tier]
                slots == ConferenceSlots(dbY, conf, tier)
            IN  (conf # IND /\ bids_for_tier(tier) >= 1) =>
                    \A t \in SeqRange(slots) :
                        (\E i \in DOMAIN selected : selected[i].team_id = t) =>
                            \/ InSeq(t, dbY.standings[conf])
                            \/ t = load_conference_champions(dbY, conf)

\* ------------------------------------------------------------------------
\* Claims about select_qualifiers_for_conference
\* ------------------------------------------------------------------------
RowsAbove1(st) == {p \in DOMAIN st : st[p].conf_rank > 1}

\* what the claim says of the list q returned for standings st and b bids
QualifiersAsClaimed(st, b, q) ==
    IF b <= 0 \/ st = <<>> \/ ~\E p \in DOMAIN st : st[p].conf_rank = 1
    THEN q = <<>>
    ELSE /\ 1 <= Len(q) /\ Len(q) <= b
         /\ \A j, k \in DOMAIN q : q[j].team_id = q[k].team_id => j = k
         /\ q[1].bid_type = "champion" /\ q[1].conf_rank = 1
         /\ \E p \in DOMAIN st : st[p].conf_rank = 1 /\ st[p].team_id = q[1].team_id
         /\ \A j \in 2..Len(q) :
               /\ q[j].bid_type = "at_large" /\ q[j].conf_rank > 1
               /\ \E p \in RowsAbove1(st) :
                     st[p].team_id = q[j].team_id /\ st[p].conf_rank = q[j].conf_rank
               /\ \A k \in 2..Len(q) : j < k => q[j].conf_rank <= q[k].conf_rank
         \* no team with a better finish is passed over, and the list stops
         \* short of b only when the standings are used up
         /\ \A p \in RowsAbove1(st) :
               (\A j \in DOMAIN q : q[j].team_id # st[p].team_id) =>
                   /\ Len(q) = b
                   /\ \A j \in 2..Len(q) : q[j].conf_rank <= st[p].conf_rank

\* C25: for b >= 1 bids select_qualifiers_for_conference returns at most b
\* entries without repeating a team: the conf_rank-1 team tagged
\* 'champion', then the following teams in ascending conf_rank tagged
\* 'at_large'; it returns nothing when b <= 0, the conference has no
\* standings rows, or no row has conf_rank 1.
C25_ChampionThenAtLarge ==
    pcB \in {"printed", "committed"} =>
        \A i \in DOMAIN standings :
            QualifiersAsClaimed(standings[i], ranked[i].bids,
                                select_qualifiers_for_conference(standings[i], ranked[i].bids))

\* a committed run in which one conference has more ranked teams than bids
\* and two rows with conf_rank 1, one has no rank-1 row and one has 0 bids
C25_Witness ==
    /\ pcB = "committed"
    /\ \E i \in DOMAIN ranked :
          /\ ranked[i].bids >= 2 /\ Len(standings[i]) > ranked[i].bids
          /\ Len(select_qualifiers_for_conference(standings[i], ranked[i].bids)) = ranked[i].bids
    /\ \E i \in DOMAIN ranked :
          /\ ranked[i].bids >= 1
          /\ Cardinality({p \in DOMAIN standings[i] : standings[i][p].conf_rank = 1}) = 2
    /\ \E i \in DOMAIN ranked : ranked[i].bids = 0

\* ------------------------------------------------------------------------
\* Claims about the bid maps of get_conference_bid_map
\* ------------------------------------------------------------------------
\* the bids of a row of `ranked` after tiering and overrides
BidsBeforeRebalance(r) == apply_bid_overrides(r.conference, r.base_bids)

\* C26: in every bid map get_conference_bid_map returns, 'FBS Independents'
\* has at most 2 bids, 'Mid-American' has at least 1 bid, no conference has
\* more than 4 bids, and no conference that had at least 1 bid after tiering
\* and overrides has 0 bids after rebalancing.
C26_BidMapInvariants ==
    (impl = "select" /\ pcB \in {"returned", "printed", "committed"}) =>
        \A i \in DOMAIN ranked :
            /\ ranked[i].conference = IND => ranked[i].bids <= 2
            /\ ranked[i].conference = MAC => ranked[i].bids >= 1
            /\ ranked[i].bids <= 4
            /\ BidsBeforeRebalance(ranked[i]) >= 1 => ranked[i].bids >= 1

\* a returned map that rebalancing reduced, with the Independents on one
\* bid below a conference that lost one, and the Mid-American outside the
\* ten tiers
C26_Witness ==
    /\ impl = "select" /\ pcB = "returned" /\ passes > 0
    /\ SumBids(ranked) < SumBids(TierRows(rulesetB, rows))
    /\ \E i, j \in DOMAIN ranked :
          /\ i < j
          /\ ranked[i].bids < BidsBeforeRebalance(ranked[i])
          /\ ranked[j].conference = IND /\ ranked[j].bids = 1
    /\ \E i \in DOMAIN ranked :
          ranked[i].conference = MAC /\ ranked[i].base_bids = 0 /\ ranked[i].bids = 1

\* ------------------------------------------------------------------------
\* Claims about the pot rule tables
\* ------------------------------------------------------------------------
\* the cells <<conference rank, finish>> the year-2 table sends to pot 0 and
\* to pot 1; every other cell goes to pot 2
Year2ByeCells ==
    {<<1, 1>>, <<1, 2>>, <<2, 1>>, <<2, 2>>, <<3, 1>>, <<4, 1>>, <<5, 1>>, <<6, 1>>}
Year2Pot1Cells ==
    {<<1, 3>>, <<2, 3>>, <<3, 2>>, <<3, 3>>, <<4, 2>>, <<4, 3>>, <<5, 2>>}

PotByTable(prog, r, f) ==
    IF <<r, f>> \in Year2ByeCells THEN 0
    ELSE IF <<r, f>> \in Year2Pot1Cells THEN 1
    ELSE IF prog = "draw1" /\ <<r, f>> = <<6, 2>> THEN 1
    ELSE 2

\* C27: the pot the draw assigns to a qualifier of conference rank r and
\* finish f is the one of the table (ranks 1-2: finish 1-2 pot 0, 3 pot 1;
\* ranks 3-4: finish 1 pot 0, 2-3 pot 1; rank 5: finish 1 pot 0, 2 pot 1;
\* rank 6: finish 1 pot 0; everything else, ranks above 10 and 999 included,
\* pot 2), and the year-1 table differs only in rank 6, finish 2, pot 1.
C27_PotTable ==
    (IsDraw /\ pcD = "assigned") =>
        \A t \in DOMAIN tx.pots :
            LET pot == PotByTable(args.prog, tx.pots[t].conf_coe_rank, tx.pots[t].conf_rank)
            IN  /\ tx.pots[t].pot = pot
                /\ InSeq(t, pot0) <=> pot = 0
                /\ InSeq(t, pot1) <=> pot = 1
                /\ InSeq(t, pot2) <=> pot = 2
                \* the cells around the ones the stored fields hold
                /\ \A r \in 0..(NumTiers + 2) \cup {NoCoeRank}, f \in 0..6 \cup {MissingConfRank} :
                      assign_pot(args.prog, r, f) = PotByTable(args.prog, r, f)

\* a year-2 assignment with a runner-up of the rank-6 conference in pot 2,
\* a fourth finisher of a top-2 conference and a tied third finisher
C27_Witness ==
    /\ args.prog = "draw2" /\ pcD = "assigned"
    /\ \E t \in DOMAIN tx.pots :
          tx.pots[t].conf_coe_rank = 6 /\ tx.pots[t].conf_rank = 2 /\ tx.pots[t].pot = 2
    /\ \E t \in DOMAIN tx.pots :
          tx.pots[t].conf_coe_rank = 1 /\ tx.pots[t].conf_rank = 4 /\ tx.pots[t].pot = 2
    /\ \E t \in DOMAIN tx.pots :
          tx.pots[t].conf_coe_rank = 5 /\ tx.pots[t].conf_rank = 2 /\ tx.pots[t].pot = 1

\* a year-1 assignment with the rank-6 runner-up in pot 1
C27_Year1Cell ==
    /\ args.prog = "draw1" /\ pcD = "assigned"
    /\ \E t \in DOMAIN tx.pots :
          tx.pots[t].conf_coe_rank = 6 /\ tx.pots[t].conf_rank = 2 /\ tx.pots[t].pot = 1

\* an assignment with a conference that has no coefficient rank
C27_UnrankedCell ==
    /\ IsDraw /\ pcD = "assigned"
    /\ \E t \in DOMAIN tx.pots : tx.pots[t].conf_coe_rank = NoCoeRank /\ tx.pots[t].pot = 2

\* ------------------------------------------------------------------------
\* Claims about the matching backtrack_pairings returns
\* ------------------------------------------------------------------------
\* a perfect matching of pot 1 with pot 2, as the pot-2 position of each
\* pot-1 team's opponent, without a same-conference pair
LegalMatchings ==
    {f \in Permutations(DOMAIN pot2) :
        \A i \in DOMAIN pot1 : conf_of[pot1[i]] # conf_of[pot2[f[i]]]}

\* the place of the opponents of f in the candidate order of each pot-1
\* team: the slot-aligned pot-2 team first, then the others in pot order
CandidateOrderKey(f) == [i \in DOMAIN pot1 |-> IF f[i] = i THEN 0 ELSE f[i]]

\* the matching returned, as pot-2 positions
ReturnedMatching == [i \in DOMAIN pot1 |-> IndexOf(pairs.list[i][2], pot2)]

\* C28: the matching backtrack_pairings returns is the first legal perfect
\* matching in lexicographic order of the per-team candidate lists (the
\* slot-aligned pot-2 team first, then the others in pot order); when every
\* slot-aligned pair is of two conferences it is the slot-aligned pairing.
C28_FirstMatchingInCandidateOrder ==
    (args.prog = "pair" /\ pcD = "paired" /\ ~pairs.none) =>
        /\ ReturnedMatching \in LegalMatchings
        /\ \A f \in LegalMatchings :
              LexLeq(CandidateOrderKey(ReturnedMatching), CandidateOrderKey(f))
        /\ (\A i \in DOMAIN pot1 : conf_of[pot1[i]] # conf_of[pot2[i]]) =>
              pairs.list = [i \in DOMAIN pot1 |-> <<pot1[i], pot2[i]>>]

\* a matching found after the search withdrew a pair, with a pot-1 team
\* that took its slot-aligned opponent although an earlier pot-2 team was
\* free and legal for it
C28_Witness ==
    /\ args.prog = "pair" /\ pcD = "paired" /\ ~pairs.none
    /\ dfs_greedy([i \in DOMAIN pot1 |-> Candidates(pot1, pot2, conf_of, pot2, i)],
                  pot1, 1, 1, {}, <<>>).none
    /\ Cardinality(LegalMatchings) >= 2
    /\ \E i \in DOMAIN pot1 : \E j \in 1..(i - 1) :
          /\ pairs.list[i][2] = pot2[i]
          /\ conf_of[pot1[i]] # conf_of[pot2[j]]
          /\ \A k \in 1..(i - 1) : pairs.list[k][2] # pot2[j]

\* every slot-aligned pair is legal and the pairing is the slot-aligned one
C28_Aligned ==
    /\ args.prog = "pair" /\ pcD = "paired" /\ ~pairs.none /\ Len(pot1) >= 3
    /\ \A i \in DOMAIN pot1 : pairs.list[i] = <<pot1[i], pot2[i]>>

\* ------------------------------------------------------------------------
\* Claims about the accumulators of per_season_iterative_ratings
\* ------------------------------------------------------------------------
Winner(g) == IF g.home_score > g.away_score THEN g.home_team ELSE g.away_team
Loser(g) == IF g.home_score > g.away_score THEN g.away_team ELSE g.home_team

\* what the decided game g adds to the accumulator of t according to the
\* claim, in units of 1 / (20 * r.den): the opponent's rating times the
\* phase weight for the winner, 0.15 times that for the loser
AddedByGame(g, r, t) ==
    IF t = Winner(g) THEN 20 * r.num[Loser(g)] * phase_weight(g.game_phase)
    ELSE IF t = Loser(g) THEN 3 * r.num[Winner(g)] * phase_weight(g.game_phase)
    ELSE 0

AccumulatorAsClaimed(gs, r, t) ==
    SumOver({i \in DOMAIN gs : Decided(gs[i])},
            [i \in DOMAIN gs |-> IF Decided(gs[i]) THEN AddedByGame(gs[i], r, t) ELSE 0])

\* a pass that normalises: the accumulators are the claimed sums over the
\* ratings before the pass, and the new ratings are those sums scaled
C29_PassStep ==
    (pcC = "rate" /\ iterN' = iterN + 1) =>
        LET teams == SeasonTeams(games)
            acc == [t \in teams |-> AccumulatorAsClaimed(games, ratings, t)]
            tot == SumOver(teams, acc)
        IN  /\ \A t \in teams : new_scores(games, ratings, t) = acc[t]
            /\ ratings' = Reduced([num |-> [t \in teams |-> acc[t] * Cardinality(teams)],
                                    den |-> tot])
            \* a single bowl game: rating(loser) * 2.0 and rating(winner) * 2.0 * 0.15
            /\ (Len(games) = 1 /\ games[1].game_phase = "bowl") =>
                  /\ new_scores(games, ratings, Winner(games[1])) = 20 * ratings.num[Loser(games[1])] * 2
                  /\ new_scores(games, ratings, Loser(games[1])) = 3 * ratings.num[Winner(games[1])] * 2

\* C29: in each iteration each decided game adds opponent_rating times
\* phase_weight to the winner's accumulator and 0.15 times opponent_rating
\* times phase_weight to the loser's, both taken from the ratings of the
\* previous iteration; for a single bowl game that A wins over B, A's
\* accumulator is rating(B) * 2.0 and B's is rating(A) * 2.0 * 0.15.
C29_AccumulatorsFromPreviousRatings == [][C29_PassStep]_vars

\* a pass was made over ratings that were no longer all equal, in a season
\* with a decided bowl game and another decided game
C29_Witness ==
    /\ pcC = "rate" /\ iterN >= 2
    /\ \E i, j \in DOMAIN games :
          /\ i # j /\ Decided(games[i]) /\ Decided(games[j])
          /\ games[i].game_phase = "bowl" /\ games[j].game_phase # "bowl"
    /\ \E t, u \in SeasonTeams(games) : ratings.num[t] > ratings.num[u] /\ ratings.num[u] > 0

\* the single bowl game of the claim after its first pass
C29_BowlExample ==
    /\ pcC = "rate" /\ iterN = 1
    /\ games = <<[home_team |-> "A", away_team |-> "B", home_score |-> 1,
                  away_score |-> 0, game_phase |-> "bowl"]>>
    /\ ratings = [num |-> [t \in {"A", "B"} |-> IF t = "A" THEN 40 ELSE 6], den |-> 23]

\* ------------------------------------------------------------------------
\* Claims about games without a result
\* ------------------------------------------------------------------------
\* a game with a missing score or equal scores
NoResult(g) == g.home_score = NoScore \/ g.away_score = NoScore \/ g.home_score = g.away_score

WithResult(gs) == SelectSeq(gs, LAMBDA g : ~NoResult(g))

AllOnes(r, teams) == DOMAIN r.num = teams /\ \A t \in teams : r.num[t] = r.den

\* in every state of the loop the accumulators are those of the season
\* without its games without a result; a season with games of which none
\* has a result has made no pass and its teams are rated 1.0
C30_State ==
    (pcC \in {"rate", "returned"} /\ games # <<>>) =>
        /\ \A t \in SeasonTeams(games) :
              new_scores(games, ratings, t) = new_scores(WithResult(games), ratings, t)
        /\ (\A i \in DOMAIN games : NoResult(games[i])) =>
              /\ iterN = 0
              /\ AllOnes(ratings, SeasonTeams(games))

\* the first evaluation of the loop body of such a season ends the loop
C30_Step ==
    (pcC = "rate" /\ \A i \in DOMAIN games : NoResult(games[i])) =>
        /\ pcC' = "returned"
        /\ ratings' = ratings /\ iterN' = iterN

\* C30: a game with a missing score or with equal scores adds nothing to
\* any accumulator; a season with games but no decided game stops in the
\* first iteration and every participating team's rating stays at 1.0.
C30_UndecidedGamesAddNothing == [](C30_State) /\ [][C30_Step]_vars

\* a season of a tie and a game with a missing score has returned
C30_Witness ==
    /\ pcC = "returned" /\ iterN = 0
    /\ \E i, j \in DOMAIN games :
          /\ games[i].home_score = games[i].away_score
          /\ games[j].home_score = NoScore
    /\ Cardinality(SeasonTeams(games)) = 3
    /\ AllOnes(ratings, SeasonTeams(games))

\* passes were made over a season with a decided game and a tie
C30_MixedSeason ==
    /\ pcC = "rate" /\ iterN >= 1
    /\ \E i, j \in DOMAIN games :
          /\ ~NoResult(games[i])
          /\ games[j].home_score = games[j].away_score

\* ========================================================================
\* Specifications: one program runs at a time, the others are not started
\* ========================================================================
IdleB ==
    /\ pcB = "idle" /\ impl = "select" /\ rulesetB = "year2" /\ rows = <<>>
    /\ ranked = <<>> /\ total = 0 /\ target_total = TargetTotal /\ passes = 0
    /\ standings = <<>> /\ inserted = 0 /\ missing_standings = 0
    /\ playoff_qualifiers_by_year = {}

IdleY ==
    /\ pcY = "idle" /\ dbY = <<>> /\ tiersY = <<>> /\ ci = 0 /\ selected = <<>>

IdleD ==
    /\ pcD = "idle" /\ store = <<>> /\ dbD = <<>> /\ tx = <<>> /\ args = <<>>
    /\ qualifiers = <<>> /\ conf_ranks = <<>>
    /\ pot0 = <<>> /\ pot1 = <<>> /\ pot2 = <<>>
    /\ rng = 0 /\ conf_of = <<>> /\ pairs = <<>> /\ runs = <<>>

IdleC ==
    /\ pcC = "idle" /\ roll_args = <<>> /\ by_year = <<>> /\ rolling_rows = {}
    /\ components = <<>> /\ games = <<>> /\ ratings = <<>> /\ iterN = 0

InitSpecBid == InitBid /\ IdleY /\ IdleD /\ IdleC
InitSpecRebalance == InitRebalance /\ IdleY /\ IdleD /\ IdleC
InitSpecY2 == InitY2 /\ IdleB /\ IdleD /\ IdleC
InitSpecDraw == InitDraw /\ IdleB /\ IdleY /\ IdleC
InitSpecPair == InitPair /\ IdleB /\ IdleY /\ IdleC
InitSpecRoll == InitRoll /\ IdleB /\ IdleY /\ IdleD
InitSpecRate == InitRate /\ IdleB /\ IdleY /\ IdleD
InitSpecRollup == InitRollup /\ IdleB /\ IdleY /\ IdleD

SpecBid == InitSpecBid /\ [][NextBid]_vars
SpecRebalance == InitSpecRebalance /\ [][NextRebalance]_vars
\* rebalance_to_total runs to completion once called: a single synchronous thread
SpecRebalanceFair == SpecRebalance /\ WF_vars(NextRebalance)
SpecY2 == InitSpecY2 /\ [][NextY2]_vars
SpecDraw == InitSpecDraw /\ [][NextDraw]_vars
SpecPair == InitSpecPair /\ [][NextPair]_vars
SpecRoll == InitSpecRoll /\ [][NextRoll]_vars
SpecRate == InitSpecRate /\ [][NextRate]_vars
SpecRollup == InitSpecRollup /\ [][NextRollup]_vars

====
